---- MODULE Spec2Model ----
(***************************************************************************)
(* Frame synchronisation and staged geometry upload of d3d12-cube.         *)
(*                                                                         *)
(* Two program variants of the repository are modelled side by side:       *)
(*   "table"  : class d3d12_renderer with a per-frame resource table and   *)
(*              gpu_fence::block(offset) (src/unnamed/part_006 with        *)
(*              src/runtime/d3d12_utilities.h);                            *)
(*   "single" : the free-standing execute_game_thread with one command     *)
(*              allocator, one command list, block() without an offset     *)
(*              and the resize flag (src/unnamed/part_005).                *)
(* The render thread, the UI thread and the GPU queue are three processes. *)
(***************************************************************************)
EXTENDS Integers, Sequences, FiniteSets, TLC

\* ---------------------------------------------------------------- bounds
\* Render-loop iterations a behaviour may start.
MaxFrames == 3
\* WM_SIZE notifications the UI thread may deliver.
MaxResizes == 1
\* Width of the fence counter in the model (std::uint64_t in the source).
CounterBits == 4
\* Width of an index (unsigned int in the source) in the model.
IndexBits == 3
\* Sizes of the loaded object.
MaxVertices == 2
MaxFaces == 2
\* Fence harness: initial_value, bump calls and the lag handed to block.
MaxInitialValue == 1
MaxBumps == 3
MaxLag == 2
\* Barrier harness: reverse calls on one barrier.
MaxReversals == 2

\* ------------------------------------------------------ program constants
\* info.BufferCount of the swap chain, size of m_frame_resources.
BufferCount == 2
\* sizeof(vector3): three floats.
SizeofVector3 == 12
\* sizeof(unsigned int).
SizeofUint == 4
Modulus == 2 ^ CounterBits
IndexModulus == 2 ^ IndexBits

Variants == {"table", "single"}
Entries == 0 .. (BufferCount - 1)

\* ------------------------------------------------------------ pure helpers
\* What a read outside a live buffer yields.
Garbage == <<"g", 0, 0>>

\* The byte region [from, from+len) of a buffer; bytes past its end are
\* outside the resource.
Region(s, from, len) ==
    [k \in 1 .. len |-> IF from + k <= Len(s) THEN s[from + k] ELSE Garbage]

\* std::memcpy / std::copy of src into dst at byte offset at.
WriteAt(dst, at, src) ==
    [k \in 1 .. Len(dst) |->
        IF k > at /\ k <= at + Len(src) THEN src[k - at] ELSE dst[k]]

\* An unsigned subtraction of the counter's width.
SubCounter(a, b) == (a + Modulus - (b % Modulus)) % Modulus

\* The parsed object file: `vertices` positions and a list of faces whose
\* three indices are the 1-based (unchecked) numbers of the text.
RawIndex(seed, nv, j, k) == (seed + 3 * (j - 1) + k) % (nv + 1)

FaceOf(seed, nv, j) ==
    <<RawIndex(seed, nv, j, 0), RawIndex(seed, nv, j, 1), RawIndex(seed, nv, j, 2)>>

Objects ==
    { [positions |-> nv, faces |-> [j \in 1 .. nf |-> FaceOf(seed, nv, j)]] :
        nv \in 1 .. MaxVertices, nf \in 1 .. MaxFaces, seed \in 0 .. 1 }

\* Mutant: a conversion that guards the index 0 and leaves it at 0.
ToZeroBased_Guarded(i) == IF i = 0 THEN 0 ELSE i - 1

\* 1-based to 0-based, in unsigned arithmetic.
ToZeroBased(i) == (i + IndexModulus - 1) % IndexModulus

\* indices.at(i * 3 + j) = face.indices.at(j) - 1
FlattenIndices(faces) ==
    [n \in 1 .. (3 * Len(faces)) |->
        ToZeroBased(faces[((n - 1) \div 3) + 1][((n - 1) % 3) + 1])]

\* *(index_iterator++) = vertex.position: the loop of the first program with
\* a staged upload, which stores the numbers of the text as they are.
CopyIndices(faces) ==
    [n \in 1 .. (3 * Len(faces)) |-> faces[((n - 1) \div 3) + 1][((n - 1) % 3) + 1]]

\* The object representation of the host arrays: byte k of element e.
VertexBytes(nv) ==
    [n \in 1 .. (nv * SizeofVector3) |->
        <<"v", (n - 1) \div SizeofVector3, (n - 1) % SizeofVector3>>]

IndexBytes(indices) ==
    [n \in 1 .. (Len(indices) * SizeofUint) |->
        <<"i", indices[((n - 1) \div SizeofUint) + 1], (n - 1) % SizeofUint>>]

\* Freshly created (unwritten) buffer memory of `size` bytes.
Blank(size) == [n \in 1 .. size |-> <<"u", 0, 0>>]

\* ------------------------------------------------------------------ state
VARIABLES
    variant,            \* which program variant runs
    object,             \* the parsed geometry file (input)
    m_value,            \* gpu_fence::m_value, the CPU-side counter
    completed,          \* ID3D12Fence::GetCompletedValue()
    event_target,       \* values registered by SetEventOnCompletion
    event_set,          \* the auto-reset event m_event is signalled
    bump_ret,           \* what the last gpu_fence::bump call returned
    offset,             \* argument of the block() call in progress
    block_from,         \* call site of the block() call in progress
    queue,              \* the direct command queue, oldest first
    list_state,         \* per entry: "closed" or "recording"
    list_cmds,          \* per entry: the commands recorded in the list
    alloc_resets,       \* per entry: ID3D12CommandAllocator::Reset calls
    res_state,          \* resource states on the GPU timeline
    upload_buffer,      \* the staging buffer: lifetime and bytes
    device_mem,         \* bytes of the device-local vertex/index buffers
    geometry,           \* the returned geometry_buffers / object_buffers
    back_index,         \* IDXGISwapChain3::GetCurrentBackBufferIndex()
    rtv_count,          \* per swap image: views created for its current buffer
    is_exit_required,   \* std::atomic_bool written by WinMain
    is_size_updated,    \* std::atomic_bool written by handle_message
    ui_pc,              \* position of the UI thread
    resizes,            \* WM_SIZE messages delivered so far
    pc,                 \* position of the render thread
    index,              \* local `index` of the iteration
    barriers,           \* local `barriers` array of record_commands
    frames,             \* render-loop iterations started
    released,           \* device objects released by scope exit
    steps,              \* history: how often each render-loop step ran
    slot_ticket,        \* history: ticket bumped after an entry's last submit
    upload_ticket,      \* history: ticket bumped after the copy list
    entry_ops           \* history: per entry, list resets, closes and submits

fenceVars == <<m_value, completed, event_target, event_set, bump_ret, offset, block_from>>
listVars == <<list_state, list_cmds, alloc_resets>>
uploadVars == <<upload_buffer, device_mem, geometry>>
surfaceVars == <<back_index, rtv_count>>
uiVars == <<is_exit_required, is_size_updated, ui_pc, resizes>>
threadVars == <<pc, index, barriers, frames, released>>
historyVars == <<steps, slot_ticket, upload_ticket, entry_ops>>

vars ==
    <<variant, object, fenceVars, queue, listVars, res_state, uploadVars,
      surfaceVars, uiVars, threadVars, historyVars>>

StepNames ==
    {"upload", "exit_read", "wait", "resize", "reset", "close", "submit", "present",
     "bump"}

\* What a call hands back to its caller: nothing (a void function), or a value.
Void == [has_value |-> FALSE, value |-> 0]
Returned(v) == [has_value |-> TRUE, value |-> v]

\* The local barrier array before record_commands has filled it.
NoBarrier ==
    [op |-> "none", resource |-> "", before |-> "", after |-> "", src_offset |-> 0, size |-> 0]

Resources == {"backbuffer0", "backbuffer1", "vertices", "indices"}
Backbuffer(i) == IF i = 0 THEN "backbuffer0" ELSE "backbuffer1"

\* State shared by the program and the fence harness after construction:
\* gpu_fence(device, initial_value), CreateCommandList1 (lists are created
\* closed), the swap chain's buffers in the COMMON state.
InitCommon(initial_value) ==
    /\ m_value = initial_value
    /\ completed = initial_value
    /\ event_target = {}
    /\ event_set = FALSE
    /\ bump_ret = Void
    /\ offset = 0
    /\ block_from = "none"
    /\ queue = <<>>
    /\ list_state = [e \in Entries |-> "closed"]
    /\ list_cmds = [e \in Entries |-> <<>>]
    /\ alloc_resets = [e \in Entries |-> 0]
    /\ res_state = [r \in Resources |->
                        IF r \in {"backbuffer0", "backbuffer1"} THEN "COMMON" ELSE "none"]
    /\ upload_buffer = [life |-> "none", bytes |-> <<>>]
    /\ device_mem = [vertices |-> <<>>, indices |-> <<>>]
    /\ geometry = [returned |-> FALSE, vertices_size |-> 0, stride |-> 0,
                    indices_size |-> 0, index_count |-> 0]
    /\ back_index = 0
    /\ rtv_count = [e \in Entries |-> IF variant = "table" THEN 1 ELSE 0]
    /\ is_exit_required = FALSE
    /\ is_size_updated = FALSE
    /\ ui_pc = "pumping"
    /\ resizes = 0
    /\ index = 0
    /\ barriers = NoBarrier
    /\ frames = 0
    /\ released = FALSE
    /\ steps = [s \in StepNames |-> 0]
    /\ slot_ticket = [e \in Entries |-> 0]
    /\ upload_ticket = 0
    /\ entry_ops = [e \in Entries |-> [reset |-> 0, close |-> 0, submit |-> 0]]

Init ==
    /\ variant \in Variants
    /\ object \in Objects
    /\ pc = "upload_create"
    /\ InitCommon(0)

\* ------------------------------------------------------------- gpu_fence
\* Mutants of bump: a post-increment (the old value is signalled), and a
\* bump that hands the new value back to its caller.
FenceBump_PostIncrement ==
    /\ m_value' = (m_value + 1) % Modulus
    /\ queue' = Append(queue, [kind |-> "signal", value |-> m_value, entry |-> 0, cmds |-> <<>>])
    /\ bump_ret' = Void

FenceBump_ReturnsTicket ==
    LET value == (m_value + 1) % Modulus IN
    /\ m_value' = value
    /\ queue' = Append(queue, [kind |-> "signal", value |-> value, entry |-> 0, cmds |-> <<>>])
    /\ bump_ret' = Returned(value)

\* Mutant: the value handed to Signal is one ahead of the counter.
FenceBump_SignalsNext ==
    LET value == (m_value + 1) % Modulus IN
    /\ m_value' = value
    /\ queue' = Append(queue, [kind |-> "signal", value |-> (value + 1) % Modulus,
                               entry |-> 0, cmds |-> <<>>])
    /\ bump_ret' = Void

\* queue.Signal(m_fence.get(), ++m_value); the call returns nothing.
FenceBump ==
    LET value == (m_value + 1) % Modulus IN
    /\ m_value' = value
    /\ queue' = Append(queue, [kind |-> "signal", value |-> value, entry |-> 0, cmds |-> <<>>])
    /\ bump_ret' = Void

\* A gpu_fence on its own, driven by an arbitrary caller: any interleaving of
\* bump and block(lag) calls against the GPU retiring the signals.
FenceInit ==
    /\ variant = "table"
    /\ object = [positions |-> 1, faces |-> << FaceOf(1, 1, 1) >>]
    /\ pc = "harness_idle"
    /\ \E initial_value \in 0 .. MaxInitialValue : InitCommon(initial_value)

\* Where block() returns to, by call site.
AfterBlock(site) ==
    CASE site = "upload" -> "upload_return"
      [] site = "frame" -> IF variant = "table" THEN "frame_index" ELSE "size_check"
      [] site = "final" -> "teardown"
      [] OTHER -> "harness_idle"

\* block() returns to its caller; the render loop's fence wait is then done.
ReturnFromBlock ==
    /\ pc' = AfterBlock(block_from)
    /\ steps' = [steps EXCEPT !["wait"] = IF block_from = "frame" THEN @ + 1 ELSE @]

\* A call of block(lag) from `site`.
CallBlock(site, lag) ==
    /\ pc' = "block_check"
    /\ block_from' = site
    /\ offset' = lag

\* Mutant of the test: the lag is taken one too large.
BlockSuspends_OffByOne == completed < SubCounter(m_value, offset + 1)

\* The test `m_fence->GetCompletedValue() < m_value - offset`.
BlockSuspends == completed < SubCounter(m_value, offset)

\* if (GetCompletedValue() < m_value - offset) ... else return
BlockCheck ==
    /\ pc = "block_check"
    /\ IF BlockSuspends
          THEN pc' = "block_arm" /\ UNCHANGED steps
          ELSE ReturnFromBlock
    /\ UNCHANGED <<variant, object, m_value, completed, event_target, event_set,
                   bump_ret, offset, block_from, queue, listVars, res_state,
                   uploadVars, surfaceVars, uiVars, index, barriers, frames,
                   released, slot_ticket, upload_ticket,
                   entry_ops>>

\* Mutant: the event is registered for the counter less the lag.
AwaitedValue_Lagged == SubCounter(m_value, offset)

\* Mutant: the event is registered for the value after the counter.
AwaitedValue_Next == (m_value + 1) % Modulus

\* The fence value block() registers the event for.
AwaitedValue == m_value

\* SetEventOnCompletion(m_value, m_event): the event is set at once when the
\* fence has already reached the value, otherwise when it does.
BlockArm ==
    /\ pc = "block_arm"
    /\ IF completed >= AwaitedValue
          THEN event_set' = TRUE /\ UNCHANGED event_target
          ELSE event_target' = event_target \cup {AwaitedValue} /\ UNCHANGED event_set
    /\ pc' = "block_wait"
    /\ UNCHANGED <<variant, object, m_value, completed, bump_ret, offset,
                   block_from, queue, listVars, res_state, uploadVars,
                   surfaceVars, uiVars, index, barriers, frames, released, historyVars>>

\* Mutant: the event is a manual-reset event, the wait leaves it signalled.
BlockWait_ManualReset ==
    /\ pc = "block_wait"
    /\ event_set
    /\ ReturnFromBlock
    /\ UNCHANGED <<variant, object, m_value, completed, event_target, event_set,
                   bump_ret, offset, block_from, queue, listVars, res_state,
                   uploadVars, surfaceVars, uiVars, index, barriers, frames,
                   released, slot_ticket, upload_ticket,
                   entry_ops>>

\* WaitForSingleObject(m_event, INFINITE) on the auto-reset event.
BlockWait ==
    /\ pc = "block_wait"
    /\ event_set
    /\ event_set' = FALSE
    /\ ReturnFromBlock
    /\ UNCHANGED <<variant, object, m_value, completed, event_target, bump_ret,
                   offset, block_from, queue, listVars, res_state, uploadVars,
                   surfaceVars, uiVars, index, barriers, frames, released,
                   slot_ticket, upload_ticket,
                   entry_ops>>

\* ------------------------------------------------------------------- GPU
TransitionCmd(resource, before, after) ==
    [op |-> "barrier", resource |-> resource, before |-> before, after |-> after,
     src_offset |-> 0, size |-> 0]

\* CopyBufferRegion(dst, 0, upload_buffer, src_offset, size)
CopyCmd(dst, src_offset, size) ==
    [op |-> "copy", resource |-> dst, before |-> "", after |-> "",
     src_offset |-> src_offset, size |-> size]

\* Binding, clear and draw commands; `size` carries the index count of a draw.
PlainCmd(op, resource, size) ==
    [op |-> op, resource |-> resource, before |-> "", after |-> "",
     src_offset |-> 0, size |-> size]

\* What a GPU read of the staging buffer returns: its bytes while it lives,
\* anything once it has been released.
StagingRead(src_offset, size) ==
    IF upload_buffer.life = "alive"
      THEN Region(upload_buffer.bytes, src_offset, size)
      ELSE [k \in 1 .. size |-> Garbage]

\* The resource states after the GPU has executed cmds[n..].
RECURSIVE StatesAfter(_, _, _)
StatesAfter(cmds, n, states) ==
    IF n > Len(cmds) THEN states
    ELSE LET c == cmds[n] IN
         StatesAfter(cmds, n + 1,
            IF c.op = "barrier"
              THEN [states EXCEPT ![c.resource] =
                        IF states[c.resource] = c.before THEN c.after ELSE "undefined"]
              ELSE states)

\* The device memory after the GPU has executed cmds[n..].
RECURSIVE MemoryAfter(_, _, _)
MemoryAfter(cmds, n, mem) ==
    IF n > Len(cmds) THEN mem
    ELSE LET c == cmds[n] IN
         MemoryAfter(cmds, n + 1,
            IF c.op = "copy"
              THEN [mem EXCEPT ![c.resource] =
                        WriteAt(mem[c.resource], 0, StagingRead(c.src_offset, c.size))]
              ELSE mem)

\* The GPU retires the oldest item of the queue: a command list, or a fence
\* signal, which sets the fence and fires the events registered for it.
GpuRetire ==
    /\ queue # <<>>
    /\ LET item == Head(queue) IN
       /\ queue' = Tail(queue)
       /\ IF item.kind = "signal"
            THEN /\ completed' = item.value
                 /\ event_target' = {v \in event_target : v > item.value}
                 /\ event_set' = (event_set \/ \E v \in event_target : v <= item.value)
                 /\ UNCHANGED <<res_state, device_mem>>
            ELSE /\ res_state' = StatesAfter(item.cmds, 1, res_state)
                 /\ device_mem' = MemoryAfter(item.cmds, 1, device_mem)
                 /\ UNCHANGED <<completed, event_target, event_set>>
    /\ UNCHANGED <<variant, object, m_value, bump_ret, offset, block_from,
                   listVars, upload_buffer, geometry, surfaceVars, uiVars,
                   threadVars, historyVars>>

\* History of an entry's command list: one more reset, close or submit.
EntryOp(e, op) == entry_ops' = [entry_ops EXCEPT ![e][op] = @ + 1]

\* ---------------------------------------------------------- staged upload
\* load_geometry (table) and schedule_object_upload (single).  Both record
\* into entry 0: m_frame_resources.front(), or the only allocator and list.
HostIndices ==
    IF variant = "early" THEN CopyIndices(object.faces) ELSE FlattenIndices(object.faces)
VerticesSize == object.positions * SizeofVector3
IndicesSize == Len(HostIndices) * SizeofUint

\* Mutant: load_geometry writes the vertices at the vertex size instead of
\* the index size.
VertexWriteOffset_WrongSize == IF variant = "table" THEN VerticesSize ELSE 0

\* Byte offsets at which the payloads are written into the mapped staging
\* buffer: load_geometry writes the indices first, schedule_object_upload
\* the vertices.
VertexWriteOffset == IF variant = "table" THEN IndicesSize ELSE 0
IndexWriteOffset == IF variant = "table" THEN 0 ELSE VerticesSize

\* Mutant: the vertex copy of load_geometry starts at the vertex size
\* instead of the index size.
VertexCopyOffset_WrongSize == IF variant = "table" THEN VerticesSize ELSE 0

\* Source offsets of the two CopyBufferRegion commands.
VertexCopyOffset == IF variant = "table" THEN IndicesSize ELSE 0
IndexCopyOffset == IF variant = "table" THEN 0 ELSE VerticesSize

\* create_upload_buffer, create_vertex_buffer, create_index_buffer: the
\* device-local buffers are created in the COPY_DEST state.
UploadCreate ==
    /\ pc = "upload_create"
    /\ upload_buffer' = [life |-> "alive", bytes |-> Blank(IndicesSize + VerticesSize)]
    /\ device_mem' = [vertices |-> Blank(VerticesSize), indices |-> Blank(IndicesSize)]
    /\ res_state' = [res_state EXCEPT !["vertices"] = "COPY_DEST",
                                      !["indices"] = "COPY_DEST"]
    /\ pc' = "upload_write"
    /\ UNCHANGED <<variant, object, fenceVars, queue, listVars, geometry,
                   surfaceVars, uiVars, index, barriers, frames, released, historyVars>>

\* map, the two copies of the host arrays, unmap.
UploadWrite ==
    /\ pc = "upload_write"
    /\ upload_buffer' =
          [upload_buffer EXCEPT !.bytes =
              WriteAt(WriteAt(@, IndexWriteOffset, IndexBytes(HostIndices)),
                      VertexWriteOffset, VertexBytes(object.positions))]
    /\ pc' = "upload_reset"
    /\ UNCHANGED <<variant, object, fenceVars, queue, listVars, res_state,
                   device_mem, geometry, surfaceVars, uiVars, index, barriers, frames,
                   released, historyVars>>

\* allocator.Reset() (load_geometry only) and list.Reset(&allocator, nullptr).
UploadReset ==
    /\ pc = "upload_reset"
    /\ alloc_resets' = [alloc_resets EXCEPT ![0] = IF variant = "table" THEN @ + 1 ELSE @]
    /\ list_state' = [list_state EXCEPT ![0] = "recording"]
    /\ list_cmds' = [list_cmds EXCEPT ![0] = <<>>]
    /\ EntryOp(0, "reset")
    /\ pc' = "upload_record"
    /\ UNCHANGED <<variant, object, fenceVars, queue, res_state, uploadVars,
                   surfaceVars, uiVars, index, barriers, frames, released,
                   steps, slot_ticket, upload_ticket>>

\* The commands of the copy list: load_geometry copies the indices, then the
\* vertices, and records no barrier; schedule_object_upload copies the
\* vertices, then the indices, and transitions both buffers.
UploadCommands ==
    IF variant = "table"
      THEN << CopyCmd("indices", IndexCopyOffset, IndicesSize),
              CopyCmd("vertices", VertexCopyOffset, VerticesSize) >>
      ELSE << CopyCmd("vertices", VertexCopyOffset, VerticesSize),
              CopyCmd("indices", IndexCopyOffset, IndicesSize),
              TransitionCmd("vertices", "COPY_DEST", "VERTEX_AND_CONSTANT_BUFFER"),
              TransitionCmd("indices", "COPY_DEST", "INDEX_BUFFER") >>

UploadRecord ==
    /\ pc = "upload_record"
    /\ list_cmds' = [list_cmds EXCEPT ![0] = @ \o UploadCommands]
    /\ pc' = "upload_close"
    /\ UNCHANGED <<variant, object, fenceVars, queue, list_state, alloc_resets,
                   res_state, uploadVars, surfaceVars, uiVars, index, barriers, frames,
                   released, historyVars>>

\* list.Close()
UploadClose ==
    /\ pc = "upload_close"
    /\ list_state' = [list_state EXCEPT ![0] = "closed"]
    /\ EntryOp(0, "close")
    /\ pc' = "upload_execute"
    /\ UNCHANGED <<variant, object, fenceVars, queue, list_cmds, alloc_resets,
                   res_state, uploadVars, surfaceVars, uiVars, index, barriers, frames,
                   released, steps, slot_ticket, upload_ticket>>

\* execute(queue, list): ExecuteCommandLists with the one list.
Submission(entry) ==
    [kind |-> "list", value |-> 0, entry |-> entry, cmds |-> list_cmds[entry]]

UploadExecute ==
    /\ pc = "upload_execute"
    /\ queue' = Append(queue, Submission(0))
    /\ steps' = [steps EXCEPT !["upload"] = @ + 1]
    /\ EntryOp(0, "submit")
    /\ pc' = "upload_bump"
    /\ UNCHANGED <<variant, object, fenceVars, listVars, res_state, uploadVars,
                   surfaceVars, uiVars, index, barriers, frames, released,
                   slot_ticket, upload_ticket>>

\* Mutant: the upload returns after the bump without the fence wait.
UploadBump_NoBlock ==
    /\ pc = "upload_bump"
    /\ FenceBump
    /\ pc' = "upload_return"
    /\ upload_ticket' = m_value'
    /\ slot_ticket' = [slot_ticket EXCEPT ![0] = m_value']
    /\ UNCHANGED <<variant, object, completed, event_target, event_set, offset,
                   block_from, listVars, res_state, uploadVars, surfaceVars,
                   uiVars, index, barriers, frames, released, steps, entry_ops>>

\* fence.bump(queue), then (after the views are filled in) fence.block().
UploadBump ==
    /\ pc = "upload_bump"
    /\ FenceBump
    /\ CallBlock("upload", 0)
    /\ upload_ticket' = m_value'
    /\ slot_ticket' = [slot_ticket EXCEPT ![0] = m_value']
    /\ UNCHANGED <<variant, object, completed, event_target, event_set,
                   listVars, res_state, uploadVars, surfaceVars, uiVars, index,
                   barriers, frames, released, steps, entry_ops>>

\* Mutant: the geometry is loaded a second time before the loop starts.
UploadReturn_Reloads ==
    /\ pc = "upload_return"
    /\ upload_buffer' = [upload_buffer EXCEPT !.life = "released"]
    /\ geometry' = [returned |-> TRUE,
                    vertices_size |-> VerticesSize,
                    stride |-> SizeofVector3,
                    indices_size |-> IndicesSize,
                    index_count |-> Len(HostIndices)]
    /\ pc' = IF steps["upload"] < 2 THEN "upload_create"
             ELSE IF variant = "table" THEN "loop_check" ELSE "setup_rtvs"
    /\ UNCHANGED <<variant, object, fenceVars, queue, listVars, res_state,
                   device_mem, surfaceVars, uiVars, index, barriers, frames, released,
                   historyVars>>

\* Mutant: the index count handed back is the number of faces.
UploadReturn_CountsFaces ==
    /\ pc = "upload_return"
    /\ upload_buffer' = [upload_buffer EXCEPT !.life = "released"]
    /\ geometry' = [returned |-> TRUE,
                    vertices_size |-> VerticesSize,
                    stride |-> SizeofVector3,
                    indices_size |-> IndicesSize,
                    index_count |-> Len(object.faces)]
    /\ pc' = IF variant = "table" THEN "loop_check" ELSE "setup_rtvs"
    /\ UNCHANGED <<variant, object, fenceVars, queue, listVars, res_state,
                   device_mem, surfaceVars, uiVars, index, barriers, frames, released,
                   historyVars>>

\* return geometry: the staging buffer's com_ptr goes out of scope.
UploadReturn ==
    /\ pc = "upload_return"
    /\ upload_buffer' = [upload_buffer EXCEPT !.life = "released"]
    /\ geometry' = [returned |-> TRUE,
                    vertices_size |-> VerticesSize,
                    stride |-> SizeofVector3,
                    indices_size |-> IndicesSize,
                    index_count |-> Len(HostIndices)]
    /\ pc' = IF variant = "table" THEN "loop_check" ELSE "setup_rtvs"
    /\ UNCHANGED <<variant, object, fenceVars, queue, listVars, res_state,
                   device_mem, surfaceVars, uiVars, index, barriers, frames, released,
                   historyVars>>

\* Mutant: create_rtvs stops after the first image.
CreateRtvs_FirstOnly ==
    [e \in Entries |-> IF e = 0 THEN rtv_count[e] + 1 ELSE rtv_count[e]]

\* create_rtvs: for (i = 0; i < 2; ++i) CreateRenderTargetView(GetBuffer(i)).
CreateRtvs == [e \in Entries |-> rtv_count[e] + 1]

\* process_resize before the loop (single): create_rtvs for both images.
SetupRtvs ==
    /\ pc = "setup_rtvs"
    /\ rtv_count' = CreateRtvs
    /\ pc' = "loop_check"
    /\ UNCHANGED <<variant, object, fenceVars, queue, listVars, res_state,
                   uploadVars, back_index, uiVars, index, barriers, frames, released,
                   historyVars>>

\* ------------------------------------------------------------ render loop
\* Mutant: the iteration uses the entry next to the reported one.
Entry_Other == IF variant = "table" THEN (index + 1) % BufferCount ELSE 0

\* The frame-table entry an iteration records into.
Entry == IF variant = "table" THEN index ELSE 0

\* Mutant: the single-allocator loop waits with a lag of one frame too.
FrameLag_OneEverywhere == IF variant = "table" THEN 1 ELSE 2 - 1

\* Mutant: the render loop tolerates two frames in flight.
FrameLag_Two == IF variant = "table" THEN 2 ELSE 0

\* The lag of the per-iteration fence wait: m_fence.block(1) in
\* d3d12_renderer::render, fence.block() in the single-allocator loop.
FrameLag == IF variant = "table" THEN 1 ELSE 0

\* Mutant: the final wait tolerates one frame in flight.
FinalLag_One == 0 + 1

\* The lag of the final wait: m_fence.block() in ~d3d12_renderer and
\* fence.block() after the loop, offset defaulted to 0.
FinalLag == 0

Count(step) == steps' = [steps EXCEPT ![step] = @ + 1]

\* while (!is_exit_required): the one read of the exit flag.  On exit the
\* final block() follows (~d3d12_renderer, or the statement after the loop).
LoopCheck ==
    /\ pc = "loop_check"
    /\ Count("exit_read")
    /\ IF is_exit_required
         THEN CallBlock("final", FinalLag) /\ UNCHANGED frames
         ELSE /\ frames < MaxFrames
              /\ frames' = frames + 1
              /\ CallBlock("frame", FrameLag)
    /\ UNCHANGED <<variant, object, m_value, completed, event_target, event_set,
                   bump_ret, queue, listVars, res_state, uploadVars, surfaceVars,
                   uiVars, index, barriers, released, slot_ticket, upload_ticket,
                   entry_ops>>

\* const auto index = m_swap_chain->GetCurrentBackBufferIndex();
FrameIndex ==
    /\ pc = "frame_index"
    /\ index' = back_index
    /\ pc' = "alloc_reset"
    /\ UNCHANGED <<variant, object, fenceVars, queue, listVars, res_state,
                   uploadVars, surfaceVars, uiVars, barriers, frames, released,
                   historyVars>>

\* if (is_size_updated)
SizeCheck ==
    /\ pc = "size_check"
    /\ pc' = IF is_size_updated THEN "size_clear" ELSE "alloc_reset"
    /\ UNCHANGED <<variant, object, fenceVars, queue, listVars, res_state,
                   uploadVars, surfaceVars, uiVars, index, barriers, frames,
                   released, historyVars>>

\* is_size_updated = false;
SizeClear ==
    /\ pc = "size_clear"
    /\ is_size_updated' = FALSE
    /\ pc' = "resize_buffers"
    /\ UNCHANGED <<variant, object, fenceVars, queue, listVars, res_state,
                   uploadVars, surfaceVars, is_exit_required, ui_pc, resizes,
                   index, barriers, frames, released, historyVars>>

\* swap_chain->ResizeBuffers(0, 0, 0, DXGI_FORMAT_UNKNOWN, 0): new buffers,
\* no view exists for them and the current back buffer is image 0 again.
ResizeBuffers ==
    /\ pc = "resize_buffers"
    /\ rtv_count' = [e \in Entries |-> 0]
    /\ back_index' = 0
    /\ pc' = "process_resize"
    /\ UNCHANGED <<variant, object, fenceVars, queue, listVars, res_state,
                   uploadVars, uiVars, index, barriers, frames, released,
                   historyVars>>

\* Mutant: the flag is cleared after the buffers have been resized.
ProcessResize_ClearsFlag ==
    /\ pc = "process_resize"
    /\ rtv_count' = CreateRtvs
    /\ is_size_updated' = FALSE
    /\ Count("resize")
    /\ pc' = "alloc_reset"
    /\ UNCHANGED <<variant, object, fenceVars, queue, listVars, res_state,
                   uploadVars, back_index, is_exit_required, ui_pc, resizes,
                   index, barriers, frames, released, slot_ticket,
                   upload_ticket, entry_ops>>

\* process_resize in the loop: create_rtvs for both images.
ProcessResize ==
    /\ pc = "process_resize"
    /\ rtv_count' = CreateRtvs
    /\ Count("resize")
    /\ pc' = "alloc_reset"
    /\ UNCHANGED <<variant, object, fenceVars, queue, listVars, res_state,
                   uploadVars, back_index, uiVars, index, barriers, frames,
                   released, slot_ticket, upload_ticket, entry_ops>>

\* Mutant: every iteration resets the allocator of the table's first entry.
AllocReset_AlwaysFront ==
    /\ pc = "alloc_reset"
    /\ alloc_resets' = [alloc_resets EXCEPT ![0] = @ + 1]
    /\ Count("reset")
    /\ pc' = "record_begin"
    /\ UNCHANGED <<variant, object, fenceVars, queue, list_state, list_cmds,
                   res_state, uploadVars, surfaceVars, uiVars, index, barriers,
                   frames, released, slot_ticket, upload_ticket,
                   entry_ops>>

\* frame.allocator->Reset() / command_allocator->Reset()
AllocReset ==
    /\ pc = "alloc_reset"
    /\ alloc_resets' = [alloc_resets EXCEPT ![Entry] = @ + 1]
    /\ Count("reset")
    /\ pc' = "record_begin"
    /\ UNCHANGED <<variant, object, fenceVars, queue, list_state, list_cmds,
                   res_state, uploadVars, surfaceVars, uiVars, index, barriers,
                   frames, released, slot_ticket, upload_ticket,
                   entry_ops>>

\* list->Reset(allocator, pipeline_state), then the bindings: root
\* signature, root constants, topology, vertex and index buffer views,
\* render target, rasterizer.  The single-allocator loop reads the back
\* buffer index between the two.
RecordBegin ==
    /\ pc = "record_begin"
    /\ index' = IF variant = "table" THEN index ELSE back_index
    /\ list_state' = [list_state EXCEPT ![Entry] = "recording"]
    /\ list_cmds' = [list_cmds EXCEPT ![Entry] =
                        << PlainCmd("bind", Backbuffer(index'), 0) >>]
    /\ EntryOp(Entry, "reset")
    /\ pc' = "record_entry"
    /\ UNCHANGED <<variant, object, fenceVars, queue, alloc_resets, res_state,
                   uploadVars, surfaceVars, uiVars, barriers, frames, released,
                   steps, slot_ticket, upload_ticket>>

\* transition(resource, before, after) builds the barrier descriptor.
Transition(resource, before, after) == TransitionCmd(resource, before, after)

\* Mutant: reverse leaves the barrier as it is.
Reverse_NoSwap(barrier) == barrier

\* reverse(barrier): std::swap(StateBefore, StateAfter).
Reverse(barrier) == [barrier EXCEPT !.before = barrier.after, !.after = barrier.before]

\* std::array barriers {transition(backbuffer, COMMON, RENDER_TARGET)};
\* the entry barrier is recorded.
RecordEntryBarrier ==
    /\ pc = "record_entry"
    /\ barriers' = Transition(Backbuffer(index), "COMMON", "RENDER_TARGET")
    /\ list_cmds' = [list_cmds EXCEPT ![Entry] = Append(@, barriers')]
    /\ pc' = "record_draw"
    /\ UNCHANGED <<variant, object, fenceVars, queue, list_state, alloc_resets,
                   res_state, uploadVars, surfaceVars, uiVars, index, frames,
                   released, historyVars>>

\* Mutant: every frame copies the index payload into the index buffer again.
DrawCommands_CopiesIndices ==
    << CopyCmd("indices", 0, geometry.indices_size),
       PlainCmd("clear_rtv", Backbuffer(index), 0),
       PlainCmd("draw", "", geometry.index_count) >>

\* ClearDepthStencilView (table only), ClearRenderTargetView,
\* DrawIndexedInstanced(index count, 1, 0, 0, 0).
DrawCommands ==
    (IF variant = "table" THEN << PlainCmd("clear_dsv", "depth_buffer", 0) >> ELSE << >>)
    \o << PlainCmd("clear_rtv", Backbuffer(index), 0),
          PlainCmd("draw", "", geometry.index_count) >>

RecordDraw ==
    /\ pc = "record_draw"
    /\ list_cmds' = [list_cmds EXCEPT ![Entry] = @ \o DrawCommands]
    /\ pc' = "record_exit"
    /\ UNCHANGED <<variant, object, fenceVars, queue, list_state, alloc_resets,
                   res_state, uploadVars, surfaceVars, uiVars, index, barriers,
                   frames, released, historyVars>>

\* reverse(barriers.front()); the exit barrier is recorded.
RecordExitBarrier ==
    /\ pc = "record_exit"
    /\ barriers' = Reverse(barriers)
    /\ list_cmds' = [list_cmds EXCEPT ![Entry] = Append(@, barriers')]
    /\ pc' = "list_close"
    /\ UNCHANGED <<variant, object, fenceVars, queue, list_state, alloc_resets,
                   res_state, uploadVars, surfaceVars, uiVars, index, frames,
                   released, historyVars>>

\* Mutant: the list is handed to the queue without having been closed.
ListClose_Skipped ==
    /\ pc = "list_close"
    /\ Count("close")
    /\ pc' = "frame_execute"
    /\ UNCHANGED <<variant, object, fenceVars, queue, listVars,
                   res_state, uploadVars, surfaceVars, uiVars, index, barriers,
                   frames, released, slot_ticket, upload_ticket, entry_ops>>

\* list->Close()
ListClose ==
    /\ pc = "list_close"
    /\ list_state' = [list_state EXCEPT ![Entry] = "closed"]
    /\ Count("close")
    /\ EntryOp(Entry, "close")
    /\ pc' = "frame_execute"
    /\ UNCHANGED <<variant, object, fenceVars, queue, list_cmds, alloc_resets,
                   res_state, uploadVars, surfaceVars, uiVars, index, barriers,
                   frames, released, slot_ticket, upload_ticket>>

\* Mutant: the iteration goes from the submission straight to the bump.
FrameExecute_SkipsPresent ==
    /\ pc = "frame_execute"
    /\ queue' = Append(queue, Submission(Entry))
    /\ Count("submit")
    /\ EntryOp(Entry, "submit")
    /\ pc' = "frame_bump"
    /\ UNCHANGED <<variant, object, fenceVars, listVars, res_state, uploadVars,
                   surfaceVars, uiVars, index, barriers, frames, released,
                   slot_ticket, upload_ticket>>

\* execute(*m_queue, *frame.list)
FrameExecute ==
    /\ pc = "frame_execute"
    /\ queue' = Append(queue, Submission(Entry))
    /\ Count("submit")
    /\ EntryOp(Entry, "submit")
    /\ pc' = "frame_present"
    /\ UNCHANGED <<variant, object, fenceVars, listVars, res_state, uploadVars,
                   surfaceVars, uiVars, index, barriers, frames, released,
                   slot_ticket, upload_ticket>>

\* The back buffer index the flip-model swap chain reports after a Present.
NextBackIndex == (back_index + 1) % BufferCount

\* Mutant: Present is followed by a second look at the exit flag, which
\* abandons the frame before its fence bump.
FramePresent_ChecksExit ==
    /\ pc = "frame_present"
    /\ back_index' = NextBackIndex
    /\ Count("present")
    /\ IF is_exit_required
         THEN CallBlock("final", FinalLag)
         ELSE pc' = "frame_bump" /\ UNCHANGED <<offset, block_from>>
    /\ UNCHANGED <<variant, object, m_value, completed, event_target, event_set,
                   bump_ret, queue, listVars, res_state, uploadVars, rtv_count,
                   uiVars, index, barriers, frames, released, slot_ticket,
                   upload_ticket, entry_ops>>

\* m_swap_chain->Present(1, 0)
FramePresent ==
    /\ pc = "frame_present"
    /\ back_index' = NextBackIndex
    /\ Count("present")
    /\ pc' = "frame_bump"
    /\ UNCHANGED <<variant, object, fenceVars, queue, listVars, res_state,
                   uploadVars, rtv_count, uiVars, index, barriers, frames,
                   released, slot_ticket, upload_ticket,
                   entry_ops>>

\* Mutant: the fence signal is enqueued ahead of the iteration's command
\* list, as if bump had been called before execute.
FrameBump_SignalsAhead ==
    LET value == (m_value + 1) % Modulus
        signal == [kind |-> "signal", value |-> value, entry |-> 0, cmds |-> <<>>]
    IN
    /\ pc = "frame_bump"
    /\ m_value' = value
    /\ bump_ret' = Void
    /\ queue' = IF queue # <<>> /\ queue[Len(queue)].kind = "list"
                  THEN SubSeq(queue, 1, Len(queue) - 1) \o << signal, queue[Len(queue)] >>
                  ELSE Append(queue, signal)
    /\ slot_ticket' = [slot_ticket EXCEPT ![Entry] = m_value']
    /\ Count("bump")
    /\ pc' = "loop_check"
    /\ UNCHANGED <<variant, object, completed, event_target, event_set, offset,
                   block_from, listVars, res_state, uploadVars, surfaceVars,
                   uiVars, index, barriers, frames, released, upload_ticket,
                   entry_ops>>

\* m_fence.bump(*m_queue): the iteration's last step.
FrameBump ==
    /\ pc = "frame_bump"
    /\ FenceBump
    /\ slot_ticket' = [slot_ticket EXCEPT ![Entry] = m_value']
    /\ Count("bump")
    /\ pc' = "loop_check"
    /\ UNCHANGED <<variant, object, completed, event_target, event_set, offset,
                   block_from, listVars, res_state, uploadVars, surfaceVars,
                   uiVars, index, barriers, frames, released, upload_ticket,
                   entry_ops>>

\* After the final block(): the members (queue, allocators, lists, buffers,
\* swap chain) are released by scope exit and the thread ends.
Teardown ==
    /\ pc = "teardown"
    /\ released' = TRUE
    /\ pc' = "done"
    /\ UNCHANGED <<variant, object, fenceVars, queue, listVars, res_state,
                   uploadVars, surfaceVars, uiVars, index, barriers, frames,
                   historyVars>>

\* -------------------------------------------------------------- UI thread
\* Mutant: the window procedure resizes the swap chain itself on WM_SIZE.
UiSize_ResizesBuffers ==
    /\ ui_pc = "pumping"
    /\ variant = "single"
    /\ resizes < MaxResizes
    /\ resizes' = resizes + 1
    /\ is_size_updated' = TRUE
    /\ rtv_count' = [e \in Entries |-> 0]
    /\ UNCHANGED <<variant, object, fenceVars, queue, listVars, res_state,
                   uploadVars, back_index, is_exit_required, ui_pc,
                   threadVars, historyVars>>

\* handle_message, WM_SIZE: *is_size_updated = true (single variant only).
UiSize ==
    /\ ui_pc = "pumping"
    /\ variant = "single"
    /\ resizes < MaxResizes
    /\ resizes' = resizes + 1
    /\ is_size_updated' = TRUE
    /\ UNCHANGED <<variant, object, fenceVars, queue, listVars, res_state,
                   uploadVars, surfaceVars, is_exit_required, ui_pc,
                   threadVars, historyVars>>

\* WM_CLOSE: PostQuitMessage ends the GetMessage loop.
UiClose ==
    /\ ui_pc = "pumping"
    /\ ui_pc' = "quit"
    /\ UNCHANGED <<variant, object, fenceVars, queue, listVars, res_state,
                   uploadVars, surfaceVars, is_exit_required, is_size_updated,
                   resizes, threadVars, historyVars>>

\* is_exit_required = true;
UiSetExit ==
    /\ ui_pc = "quit"
    /\ is_exit_required' = TRUE
    /\ ui_pc' = "joining"
    /\ UNCHANGED <<variant, object, fenceVars, queue, listVars, res_state,
                   uploadVars, surfaceVars, is_size_updated, resizes,
                   threadVars, historyVars>>

\* game_thread.join()
UiJoin ==
    /\ ui_pc = "joining"
    /\ pc = "done"
    /\ ui_pc' = "exited"
    /\ UNCHANGED <<variant, object, fenceVars, queue, listVars, res_state,
                   uploadVars, surfaceVars, is_exit_required, is_size_updated,
                   resizes, threadVars, historyVars>>

Next ==
    \/ UploadCreate \/ UploadWrite \/ UploadReset \/ UploadRecord
    \/ UploadClose \/ UploadExecute \/ UploadBump \/ UploadReturn \/ SetupRtvs
    \/ LoopCheck \/ BlockCheck \/ BlockArm \/ BlockWait
    \/ FrameIndex \/ SizeCheck \/ SizeClear \/ ResizeBuffers \/ ProcessResize
    \/ AllocReset \/ RecordBegin \/ RecordEntryBarrier \/ RecordDraw
    \/ RecordExitBarrier \/ ListClose \/ FrameExecute \/ FramePresent
    \/ FrameBump \/ Teardown
    \/ GpuRetire
    \/ UiSize \/ UiClose \/ UiSetExit \/ UiJoin

Spec == Init /\ [][Next]_vars

\* The render thread's steps, and the program under a scheduler that lets
\* the render thread and the GPU queue run whenever they can.
RenderStep ==
    \/ UploadCreate \/ UploadWrite \/ UploadReset \/ UploadRecord
    \/ UploadClose \/ UploadExecute \/ UploadBump \/ UploadReturn \/ SetupRtvs
    \/ LoopCheck \/ BlockCheck \/ BlockArm \/ BlockWait
    \/ FrameIndex \/ SizeCheck \/ SizeClear \/ ResizeBuffers \/ ProcessResize
    \/ AllocReset \/ RecordBegin \/ RecordEntryBarrier \/ RecordDraw
    \/ RecordExitBarrier \/ ListClose \/ FrameExecute \/ FramePresent
    \/ FrameBump \/ Teardown

LiveSpec == Init /\ [][Next]_vars /\ WF_vars(RenderStep) /\ WF_vars(GpuRetire)

\* The program under the scheduler of LiveSpec with WinMain's join returning
\* once the render thread has ended.
ExitSpec ==
    Init /\ [][Next]_vars /\ WF_vars(RenderStep) /\ WF_vars(GpuRetire) /\ WF_vars(UiJoin)

\* --------------------------------------------------- repeated notifications
\* The program with the resize flag, with one window message more than
\* MaxResizes so that a WM_SIZE can arrive between the render thread's test,
\* clear and resize of an earlier one.
MaxSets == MaxResizes + 1

ResizeInit ==
    /\ variant = "single"
    /\ object = [positions |-> 1, faces |-> << FaceOf(1, 1, 1) >>]
    /\ pc = "upload_create"
    /\ InitCommon(0)

\* handle_message, WM_SIZE: *is_size_updated = true.
UiSizeRepeated ==
    /\ ui_pc = "pumping"
    /\ resizes < MaxSets
    /\ resizes' = resizes + 1
    /\ is_size_updated' = TRUE
    /\ UNCHANGED <<variant, object, fenceVars, queue, listVars, res_state,
                   uploadVars, surfaceVars, is_exit_required, ui_pc,
                   threadVars, historyVars>>

\* The steps of the single-allocator program (its loop has no table index to
\* pick before the fence wait).
ResizeNext ==
    \/ UploadCreate \/ UploadWrite \/ UploadReset \/ UploadRecord
    \/ UploadClose \/ UploadExecute \/ UploadBump \/ UploadReturn \/ SetupRtvs
    \/ LoopCheck \/ BlockCheck \/ BlockArm \/ BlockWait
    \/ SizeCheck \/ SizeClear \/ ResizeBuffers \/ ProcessResize
    \/ AllocReset \/ RecordBegin \/ RecordEntryBarrier \/ RecordDraw
    \/ RecordExitBarrier \/ ListClose \/ FrameExecute \/ FramePresent
    \/ FrameBump \/ Teardown
    \/ GpuRetire
    \/ UiSizeRepeated \/ UiClose \/ UiSetExit \/ UiJoin

ResizeSpec ==
    ResizeInit /\ [][ResizeNext]_vars /\ WF_vars(RenderStep) /\ WF_vars(GpuRetire)

\* ---------------------------------------------------------------- failures
\* Positions of the render thread at which the next statement is a checked
\* call (winrt::check_hresult, winrt::check_bool, winrt::capture): buffer
\* creation, map, allocator and list Reset, Close, Signal,
\* SetEventOnCompletion, WaitForSingleObject, Present, and in the
\* single-allocator program ResizeBuffers, GetBuffer and GetDesc.
CheckedCallPcs ==
    {"upload_create", "upload_write", "upload_reset", "upload_close", "upload_bump",
     "block_arm", "block_wait", "alloc_reset", "record_begin", "list_close",
     "frame_present", "frame_bump"}
    \cup (IF variant = "single"
            THEN {"setup_rtvs", "resize_buffers", "process_resize"} ELSE {})

\* The checked call fails and throws.  What came before the failing call in
\* the same statement has happened: ++m_value in bump (the argument of the
\* failed Signal), allocator.Reset() when list.Reset fails in load_geometry.
CallFails ==
    /\ pc \in CheckedCallPcs
    /\ pc' = "thrown"
    /\ m_value' = IF pc \in {"upload_bump", "frame_bump"}
                    THEN (m_value + 1) % Modulus ELSE m_value
    /\ \E partial \in BOOLEAN :
          alloc_resets' =
              IF partial /\ pc = "upload_reset" /\ variant = "table"
                THEN [alloc_resets EXCEPT ![0] = @ + 1] ELSE alloc_resets
    /\ UNCHANGED <<variant, object, completed, event_target, event_set, bump_ret,
                   offset, block_from, queue, list_state, list_cmds, res_state,
                   uploadVars, surfaceVars, uiVars, index, barriers, frames,
                   released, historyVars>>

\* Mutant: a handler catches the exception and the loop carries on.
Terminate_Caught ==
    /\ pc = "thrown"
    /\ pc' = "loop_check"
    /\ UNCHANGED <<variant, object, fenceVars, queue, listVars, res_state,
                   uploadVars, surfaceVars, uiVars, index, barriers, frames,
                   released, historyVars>>

\* No handler exists on the render thread: the exception leaves the thread
\* function, std::terminate ends the process and with it the UI thread.
Terminate ==
    /\ pc = "thrown"
    /\ pc' = "terminated"
    /\ ui_pc' = "terminated"
    /\ UNCHANGED <<variant, object, fenceVars, queue, listVars, res_state,
                   uploadVars, surfaceVars, is_exit_required, is_size_updated,
                   resizes, index, barriers, frames, released, historyVars>>

FailNext == Next \/ CallFails \/ Terminate

\* The program with failing calls; the terminating thread is not held up.
FailSpec == Init /\ [][FailNext]_vars /\ WF_vars(Terminate)

\* ----------------------------------------------------------- fence harness
HarnessBump ==
    /\ pc = "harness_idle"
    /\ m_value < MaxInitialValue + MaxBumps
    /\ FenceBump
    /\ UNCHANGED <<variant, object, completed, event_target, event_set, offset,
                   block_from, listVars, res_state, uploadVars, surfaceVars,
                   uiVars, threadVars, historyVars>>

HarnessBlock ==
    /\ pc = "harness_idle"
    /\ \E lag \in 0 .. MaxLag : CallBlock("harness", lag)
    /\ UNCHANGED <<variant, object, m_value, completed, event_target, event_set,
                   bump_ret, queue, listVars, res_state, uploadVars, surfaceVars,
                   uiVars, index, barriers, frames, released, historyVars>>

FenceNext ==
    \/ HarnessBump \/ HarnessBlock
    \/ BlockCheck \/ BlockArm \/ BlockWait
    \/ GpuRetire

FenceSpec == FenceInit /\ [][FenceNext]_vars

\* ------------------------------------------------------ arbitrary surface
\* m_swap_chain->Present(1, 0) against a presentation surface that may
\* report any of its images as the next back buffer, the same one included.
FramePresentAny ==
    /\ pc = "frame_present"
    /\ back_index' \in Entries
    /\ Count("present")
    /\ pc' = "frame_bump"
    /\ UNCHANGED <<variant, object, fenceVars, queue, listVars, res_state,
                   uploadVars, rtv_count, uiVars, index, barriers, frames,
                   released, slot_ticket, upload_ticket,
                   entry_ops>>

SurfaceNext ==
    \/ UploadCreate \/ UploadWrite \/ UploadReset \/ UploadRecord
    \/ UploadClose \/ UploadExecute \/ UploadBump \/ UploadReturn \/ SetupRtvs
    \/ LoopCheck \/ BlockCheck \/ BlockArm \/ BlockWait
    \/ FrameIndex \/ SizeCheck \/ SizeClear \/ ResizeBuffers \/ ProcessResize
    \/ AllocReset \/ RecordBegin \/ RecordEntryBarrier \/ RecordDraw
    \/ RecordExitBarrier \/ ListClose \/ FrameExecute \/ FramePresentAny
    \/ FrameBump \/ Teardown
    \/ GpuRetire
    \/ UiSize \/ UiClose \/ UiSetExit \/ UiJoin

\* The program with the surface owning the index assignment.
SurfaceSpec == Init /\ [][SurfaceNext]_vars

\* ------------------------------------------------------ out-of-order fence
\* The fence harness against a GPU side that signals the enqueued tickets in
\* any order.  A signal sets the fence to its value (ID3D12Fence keeps the
\* value last signalled) and fires the events registered for values up to it.
MockSignal ==
    /\ \E n \in 1 .. Len(queue) :
          LET item == queue[n] IN
          /\ item.kind = "signal"
          /\ queue' = SubSeq(queue, 1, n - 1) \o SubSeq(queue, n + 1, Len(queue))
          /\ completed' = item.value
          /\ event_target' = {v \in event_target : v > item.value}
          /\ event_set' = (event_set \/ \E v \in event_target : v <= item.value)
    /\ UNCHANGED <<variant, object, m_value, bump_ret, offset, block_from,
                   listVars, res_state, uploadVars, surfaceVars, uiVars,
                   threadVars, historyVars>>

\* The steps of a block() call in progress.
BlockStep == BlockCheck \/ BlockArm \/ BlockWait

MockNext ==
    \/ HarnessBump \/ HarnessBlock
    \/ BlockCheck \/ BlockArm \/ BlockWait
    \/ MockSignal

\* The calling thread runs when it can and every enqueued signal is
\* delivered at some time.
MockSpec == FenceInit /\ [][MockNext]_vars /\ WF_vars(BlockStep) /\ WF_vars(MockSignal)

\* ----------------------------------------------------------- index harness
\* The index conversion and the staging write on their own, for the three
\* programs that stage an upload: load_geometry ("table"),
\* load_wavefront_vertices with schedule_object_upload ("single"), and the
\* schedule_object_upload of the first program with a staged upload
\* ("early"), whose layout and copies are those of "single".  The first face
\* holds any three numbers the text may contain.
IndexObjects ==
    { [positions |-> nv,
       faces |-> [j \in 1 .. nf |-> IF j = 1 THEN <<a, b, c>> ELSE FaceOf(seed, nv, j)]] :
        nv \in 1 .. MaxVertices, nf \in 1 .. MaxFaces, seed \in 0 .. 1,
        a \in 0 .. MaxVertices, b \in 0 .. MaxVertices, c \in 0 .. MaxVertices }

IndexInit ==
    /\ variant \in Variants \cup {"early"}
    /\ object \in IndexObjects
    /\ pc = "upload_create"
    /\ InitCommon(0)

IndexNext == UploadCreate \/ UploadWrite

IndexSpec == IndexInit /\ [][IndexNext]_vars

\* --------------------------------------------------------- barrier harness
\* transition and reverse on their own, called with any resource, any pair
\* of states and any kind of barrier.
ResourceStates ==
    {"COMMON", "RENDER_TARGET", "COPY_DEST", "VERTEX_AND_CONSTANT_BUFFER", "INDEX_BUFFER"}

\* The other members of D3D12_RESOURCE_BARRIER_TYPE.
OtherBarrierKinds == {"aliasing", "uav"}

\* The precondition of transition: Expects(before != after) in the
\* transition of d3d12_utilities.h (used with the frame table); the
\* transition of the single-allocator program has none.
TransitionExpects(before, after) ==
    IF variant = "table" THEN before # after ELSE TRUE

\* Mutant: reverse swaps whatever barrier it is handed.
ReverseExpects_Unchecked(barrier) == barrier.op \in ({"barrier"} \cup OtherBarrierKinds)

\* The precondition of reverse:
\* Expects(barrier.Type == D3D12_RESOURCE_BARRIER_TYPE_TRANSITION).
ReverseExpects(barrier) == barrier.op = "barrier"

BarrierInit ==
    /\ variant \in Variants
    /\ object = [positions |-> 1, faces |-> << FaceOf(1, 1, 1) >>]
    /\ pc = "barrier_idle"
    /\ InitCommon(0)

\* A call of transition(resource, before, after); the barrier it returns is
\* issued (ResourceBarrier).  A violated Expects terminates the program.
HarnessTransition ==
    /\ pc = "barrier_idle"
    /\ \E resource \in Resources, before \in ResourceStates, after \in ResourceStates :
          IF TransitionExpects(before, after)
            THEN /\ barriers' = Transition(resource, before, after)
                 /\ list_cmds' = [list_cmds EXCEPT ![0] = << barriers' >>]
                 /\ pc' = "barrier_built"
            ELSE /\ pc' = "terminated"
                 /\ UNCHANGED <<barriers, list_cmds>>
    /\ UNCHANGED <<variant, object, fenceVars, queue, list_state, alloc_resets,
                   res_state, uploadVars, surfaceVars, uiVars, index, frames,
                   released, historyVars>>

\* A barrier of another kind, built by hand and issued.
HarnessOtherBarrier ==
    /\ pc = "barrier_idle"
    /\ \E kind \in OtherBarrierKinds, resource \in Resources :
          barriers' = PlainCmd(kind, resource, 0)
    /\ list_cmds' = [list_cmds EXCEPT ![0] = << barriers' >>]
    /\ pc' = "barrier_built"
    /\ UNCHANGED <<variant, object, fenceVars, queue, list_state, alloc_resets,
                   res_state, uploadVars, surfaceVars, uiVars, index, frames,
                   released, historyVars>>

\* A call of reverse(barrier) on the barrier at hand, which is then issued
\* again, as record_commands does.
HarnessReverse ==
    /\ pc = "barrier_built"
    /\ Len(list_cmds[0]) <= MaxReversals
    /\ IF ReverseExpects(barriers)
         THEN /\ barriers' = Reverse(barriers)
              /\ list_cmds' = [list_cmds EXCEPT ![0] = Append(@, barriers')]
              /\ pc' = "barrier_built"
         ELSE /\ pc' = "terminated"
              /\ UNCHANGED <<barriers, list_cmds>>
    /\ UNCHANGED <<variant, object, fenceVars, queue, list_state, alloc_resets,
                   res_state, uploadVars, surfaceVars, uiVars, index, frames,
                   released, historyVars>>

BarrierNext == HarnessTransition \/ HarnessOtherBarrier \/ HarnessReverse

BarrierSpec == BarrierInit /\ [][BarrierNext]_vars

\* ================================================================= claims
Last(s) == s[Len(s)]

BlockPcs == {"block_check", "block_arm", "block_wait"}

RecordingPcs ==
    {"record_begin", "record_entry", "record_draw", "record_exit", "list_close"}

FramePcs ==
    {"frame_index", "size_check", "size_clear", "resize_buffers", "process_resize",
     "alloc_reset", "frame_execute", "frame_present", "frame_bump"} \cup RecordingPcs

\* The render thread is inside a render-loop iteration.
InFrame == pc \in FramePcs \/ (pc \in BlockPcs /\ block_from = "frame")

\* A command list submitted from entry e has not been retired by the GPU.
Outstanding(e) ==
    \E n \in 1 .. Len(queue) : queue[n].kind = "list" /\ queue[n].entry = e

\* A submitted list that reads the staging buffer has not been retired.
CopyOutstanding ==
    \E n \in 1 .. Len(queue) :
        /\ queue[n].kind = "list"
        /\ \E k \in 1 .. Len(queue[n].cmds) : queue[n].cmds[k].op = "copy"

\* This step is a bump: a fence signal is appended to the queue.
SignalEnqueued ==
    /\ Len(queue') = Len(queue) + 1
    /\ Last(queue').kind = "signal"

\* This step is block() returning to its caller.
BlockReturns == pc \in {"block_check", "block_wait"} /\ pc' \notin BlockPcs

\* ---- C1
\* C1 (frame-slot exclusivity): from the allocator reset of a render
\* iteration until its list is closed, no command list submitted earlier from
\* the same frame entry is still in the queue, and the fence has reached the
\* ticket bumped after that entry's last submission.
C1_FrameSlotExclusive ==
    pc \in RecordingPcs =>
        /\ ~Outstanding(Entry)
        /\ completed >= slot_ticket[Entry]

\* The third iteration re-uses entry 0 while entry 1's frame is in flight.
C1_Witness ==
    /\ variant = "table"
    /\ pc = "record_begin"
    /\ index = 0
    /\ alloc_resets[0] = 3
    /\ Outstanding(1)

\* ---- C2
C2_UploadDone ==
    /\ upload_ticket > 0
    /\ completed >= upload_ticket
    /\ ~CopyOutstanding

C2_AfterConfirm == pc \notin
    {"upload_create", "upload_write", "upload_reset", "upload_record",
     "upload_close", "upload_execute", "upload_bump"} \cup BlockPcs

\* C2 (upload completion before staging release): once the upload's
\* confirming block() has returned, the fence has reached the ticket bumped
\* after the copy list and the copy list has retired; the staging buffer is
\* released only then, and after the block() the only access to it is that
\* release at function exit; copy commands are recorded only before it.
C2_UploadCompletesBeforeRelease ==
    [][ /\ (C2_AfterConfirm' \/ upload_buffer'.life = "released" \/ geometry'.returned)
            => C2_UploadDone'
        /\ (C2_AfterConfirm /\ upload_buffer' # upload_buffer)
            => (pc = "upload_return" /\ upload_buffer'.life = "released"
                /\ upload_buffer'.bytes = upload_buffer.bytes)
        /\ (C2_AfterConfirm /\ list_cmds' # list_cmds)
            => \A e \in Entries : \A k \in 1 .. Len(list_cmds'[e]) :
                   list_cmds'[e][k].op # "copy"
      ]_vars

\* The upload has returned and the render loop records its first frame.
C2_Witness ==
    /\ upload_buffer.life = "released"
    /\ geometry.returned
    /\ pc = "record_begin"

\* ---- C3
\* C3 (wait correctness): whenever block(lag) returns, the completed fence
\* value is at least counter - lag (as integers), for every counter and lag.
C3_WaitCorrect ==
    [][BlockReturns => completed' >= m_value' - offset']_vars

\* A block(lag >= 1) that suspended and whose wake-up has arrived.
C3_Witness ==
    /\ pc = "block_wait"
    /\ block_from = "harness"
    /\ offset >= 1
    /\ event_set
    /\ completed >= 2

\* ---- C4
\* C4 (fence monotonicity): every bump raises the counter by exactly 1 and
\* enqueues exactly the new counter value; the counter changes in no other
\* step, so it never decreases or repeats.
C4_FenceMonotonic ==
    [][(m_value' # m_value \/ SignalEnqueued) =>
            /\ SignalEnqueued
            /\ m_value' = m_value + 1
            /\ Last(queue').value = m_value'
            /\ queue' = Append(queue, Last(queue'))
      ]_vars

\* Three bumps in a row, none retired yet.
C4_Witness ==
    /\ Len(queue) = 3
    /\ \A n \in 1 .. 3 : queue[n].kind = "signal" /\ queue[n].value = m_value - 3 + n

IsPass(cmds) == Len(cmds) > 0 /\ cmds[1].op = "bind"

Positions(cmds, c) == {n \in 1 .. Len(cmds) : cmds[n] = c}

\* One entry transition, one reversing transition, the clear and the draw
\* between them, and the back buffer back in COMMON at the end.
PassPaired(cmds) ==
    LET target == cmds[1].resource
        ins == Positions(cmds, TransitionCmd(target, "COMMON", "RENDER_TARGET"))
        outs == Positions(cmds, TransitionCmd(target, "RENDER_TARGET", "COMMON"))
        work == {n \in 1 .. Len(cmds) : cmds[n].op \in {"clear_rtv", "draw"}}
    IN  /\ Cardinality(ins) = 1
        /\ Cardinality(outs) = 1
        /\ {n \in 1 .. Len(cmds) : cmds[n].op = "barrier"} = ins \cup outs
        /\ Cardinality(work) = 2
        /\ \A i \in ins, w \in work, o \in outs : i < w /\ w < o
        /\ outs = {Len(cmds)}
        /\ StatesAfter(cmds, 1, [r \in Resources |-> "COMMON"])[target] = "COMMON"

\* C6 (barrier pairing): every closed command list recorded by
\* record_commands, and every such list in the queue, holds exactly one
\* COMMON -> RENDER_TARGET transition of its back buffer and exactly one
\* reverse after the clear and the draw, as its last command; on the GPU the
\* back buffers are in COMMON whenever a list has retired.
C6_BarrierPaired ==
    /\ \A e \in Entries :
          (list_state[e] = "closed" /\ IsPass(list_cmds[e])) => PassPaired(list_cmds[e])
    /\ \A n \in 1 .. Len(queue) :
          (queue[n].kind = "list" /\ IsPass(queue[n].cmds)) => PassPaired(queue[n].cmds)
    /\ \A i \in Entries : res_state[Backbuffer(i)] = "COMMON"

\* A frame's list has just been closed.
C6_Witness ==
    /\ pc = "frame_execute"
    /\ list_state[Entry] = "closed"
    /\ IsPass(list_cmds[Entry])
    /\ Last(list_cmds[Entry]) = TransitionCmd(Backbuffer(index), "RENDER_TARGET", "COMMON")

\* ---- C7
\* C7 (final drain): the device objects are released only after the exit
\* flag was observed and a final block() with lag 0 has returned, in a state
\* where the completed value equals the counter and the queue is empty.
C7_FinalDrain ==
    (released \/ pc \in {"teardown", "done"}) =>
        /\ is_exit_required
        /\ block_from = "final"
        /\ offset = 0
        /\ completed = m_value
        /\ queue = <<>>

\* Teardown after at least two frames were submitted.
C7_Witness ==
    /\ released
    /\ steps["bump"] >= 2

\* ---- C8
\* C8 (step order): in every state the counts of the render-loop steps form
\* the chain wait >= reset >= close >= submit >= present >= bump >= wait - 1,
\* i.e. each iteration runs wait, reset and record, submit, present, bump in
\* this order; a list is submitted only closed.
C8_StepOrder ==
    /\ steps["wait"] >= steps["reset"]
    /\ steps["reset"] >= steps["close"]
    /\ steps["close"] >= steps["submit"]
    /\ steps["submit"] >= steps["present"]
    /\ steps["present"] >= steps["bump"]
    /\ steps["bump"] >= steps["wait"] - 1
    /\ \A n \in 1 .. Len(queue) :
          queue[n].kind = "list" => list_state[queue[n].entry] = "closed"

\* The second iteration has submitted and not yet presented.
C8_Witness ==
    /\ pc = "frame_present"
    /\ steps["submit"] = 2
    /\ steps["present"] = 1

\* ---- C9
\* The render thread has left the loop.
LoopLeft == block_from = "final"

C9_ReadsMatch == steps["exit_read"] = frames + (IF LoopLeft THEN 1 ELSE 0)

\* C9 (exit flag read once per iteration): the flag is read only at the loop
\* condition, once per iteration started plus the read that ends the loop; a
\* started iteration leaves the frame only through its fence bump back to the
\* loop condition, also when the flag is set in the middle of it.
C9_ExitReadOncePerIteration ==
    [][ /\ C9_ReadsMatch /\ C9_ReadsMatch'
        /\ (steps'["exit_read"] # steps["exit_read"]) => pc = "loop_check"
        /\ InFrame => (InFrame' \/ pc' = "loop_check")
        /\ (InFrame /\ pc' = "loop_check") => steps'["bump"] = steps["bump"] + 1
      ]_vars

\* The flag was set while a frame was between Present and the bump.
C9_Witness ==
    /\ is_exit_required
    /\ pc = "frame_bump"

\* ---- C10
\* C10 (upload content): once the staged upload has returned, the vertex
\* buffer holds exactly the host vertex bytes and the index buffer exactly
\* the bytes of the 0-based host indices.
C10_UploadContent ==
    geometry.returned =>
        /\ device_mem.vertices = VertexBytes(object.positions)
        /\ device_mem.indices = IndexBytes(HostIndices)

\* An upload of two vertices and two faces has returned (indices first in
\* the staging buffer).
C10_Witness ==
    /\ geometry.returned
    /\ variant = "table"
    /\ object.positions = 2
    /\ Len(device_mem.indices) = 6 * SizeofUint
    /\ Len(device_mem.vertices) = 2 * SizeofVector3

\* ---- C11
\* The staging buffer has been written and not yet released.
StagingWritten ==
    /\ upload_buffer.life = "alive"
    /\ pc \notin {"upload_create", "upload_write"}

\* The payload a copy command is meant to move into its destination.
PayloadOf(resource) ==
    IF resource = "vertices" THEN VertexBytes(object.positions) ELSE IndexBytes(HostIndices)

C12_UploadTerminalStates ==
    geometry.returned =>
        /\ res_state["vertices"] = "VERTEX_AND_CONSTANT_BUFFER"
        /\ res_state["indices"] = "INDEX_BUFFER"

\* ---- C13
UploadPcs ==
    {"upload_create", "upload_write", "upload_reset", "upload_record",
     "upload_close", "upload_execute", "upload_bump", "upload_return"}

\* The render thread is inside the staged upload.
InUpload == pc \in UploadPcs \/ (pc \in BlockPcs /\ block_from = "upload")

\* C13 (one upload, before the loop): the copy list is submitted at most
\* once; while the upload runs no render-loop step has happened; and once
\* the render loop has been entered the upload was submitted exactly once,
\* its fence wait has returned, its copy list has retired and it is never
\* entered again.
C13_UploadOnceBeforeLoop ==
    /\ steps["upload"] <= 1
    /\ InUpload =>
          /\ frames = 0
          /\ \A s \in StepNames \ {"upload"} : steps[s] = 0
    /\ (frames > 0 \/ InFrame \/ pc \in {"loop_check", "teardown", "done"}) =>
          /\ ~InUpload
          /\ steps["upload"] = 1
          /\ geometry.returned
          /\ completed >= upload_ticket
          /\ ~CopyOutstanding

\* The first render iteration starts its fence wait after the upload.
C13_Witness ==
    /\ pc = "block_check"
    /\ block_from = "frame"
    /\ frames = 1
    /\ steps["upload"] = 1
    /\ geometry.returned

\* ---- C14
\* The fence bump that follows entry e's submission has not happened yet.
TicketPending(e) ==
    \/ pc = "upload_bump" /\ e = 0
    \/ pc \in {"frame_present", "frame_bump"} /\ e = Entry

\* The fence has reached the ticket of entry e's last submission.
Retired(e) ==
    /\ ~TicketPending(e)
    /\ ~Outstanding(e)
    /\ completed >= slot_ticket[e]

\* Where entry e's allocator/list pair is in its life cycle.
LifePhase(e) ==
    LET o == entry_ops[e] IN
    IF o.reset = 0 THEN "Idle"
    ELSE IF o.reset > o.close THEN "Recording"
    ELSE IF o.close > o.submit THEN "Closed"
    ELSE IF Retired(e) THEN "Retired"
    ELSE "Submitted"

LifeSteps ==
    { <<"Idle", "Recording">>, <<"Recording", "Closed">>, <<"Closed", "Submitted">>,
      <<"Submitted", "Retired">>, <<"Retired", "Recording">> }

\* C14 (frame-entry state machine): an entry only moves Idle -> Recording ->
\* Closed -> Submitted -> Retired -> Recording; its list is reset only while
\* it is not open (the entry idle or retired), closed only while open and so
\* once per reset, submitted only while closed and once per close; and at
\* most one list is open at any time.
C14_EntryStateMachine ==
    [][ /\ \A e \in Entries :
            /\ LifePhase(e)' # LifePhase(e) => <<LifePhase(e), LifePhase(e)'>> \in LifeSteps
            /\ entry_ops'[e].reset # entry_ops[e].reset =>
                  /\ list_state[e] # "recording"
                  /\ LifePhase(e) \in {"Idle", "Retired"}
                  /\ list_state'[e] = "recording"
            /\ entry_ops'[e].close # entry_ops[e].close =>
                  /\ list_state[e] = "recording"
                  /\ list_state'[e] = "closed"
            /\ entry_ops'[e].submit # entry_ops[e].submit =>
                  /\ list_state[e] = "closed"
                  /\ LifePhase(e) = "Closed"
                  /\ Last(queue').entry = e /\ Last(queue').kind = "list"
            /\ entry_ops'[e].close <= entry_ops'[e].reset
            /\ entry_ops'[e].reset <= entry_ops'[e].close + 1
            /\ entry_ops'[e].submit <= entry_ops'[e].close
            /\ entry_ops'[e].close <= entry_ops'[e].submit + 1
            /\ (list_state'[e] = "recording") = (LifePhase(e)' = "Recording")
        /\ Cardinality({e \in Entries : list_state'[e] = "recording"}) <= 1
        /\ Len(queue') > Len(queue) /\ Last(queue').kind = "list" =>
              entry_ops'[Last(queue').entry].submit = entry_ops[Last(queue').entry].submit + 1
      ]_vars

\* Entry 0 is recorded for the third time (upload, frame 1, frame 3) while
\* entry 1's frame is still submitted.
C14_Witness ==
    /\ variant = "table"
    /\ LifePhase(0) = "Recording"
    /\ entry_ops[0].reset = 3
    /\ LifePhase(1) = "Submitted"

\* ---- C15
\* The iteration has read the surface's index and not yet presented.
IndexHeld == pc \in ({"alloc_reset", "frame_execute", "frame_present"} \cup RecordingPcs)

\* C15 (one entry per iteration): in the frame table variant an iteration
\* works on the entry at the index the swap chain reported at its start,
\* which is still the surface's current index until Present; every step of
\* the iteration leaves the allocator, the list and the recorded commands of
\* the other entry unchanged, and the submission names that entry.  The
\* single-allocator loop only ever touches its one allocator and list.
C15_OneEntryPerIteration ==
    [][ InFrame =>
          LET touched == IF variant = "table" THEN index' ELSE 0 IN
          /\ \A e \in Entries \ {touched} :
                /\ list_state'[e] = list_state[e]
                /\ list_cmds'[e] = list_cmds[e]
                /\ alloc_resets'[e] = alloc_resets[e]
          /\ (variant = "table" /\ IndexHeld) => (index = back_index /\ index' = index)
          /\ (Len(queue') > Len(queue) /\ Last(queue').kind = "list") =>
                Last(queue').entry = touched
          /\ (alloc_resets' # alloc_resets \/ list_cmds' # list_cmds
                \/ list_state' # list_state) =>
                (alloc_resets'[touched] # alloc_resets[touched]
                 \/ list_cmds'[touched] # list_cmds[touched]
                 \/ list_state'[touched] # list_state[touched])
      ]_vars

\* The second iteration has recorded into entry 1; entry 0 still holds the
\* first frame's closed list.
C15_Witness ==
    /\ variant = "table"
    /\ pc = "list_close"
    /\ index = 1
    /\ back_index = 1
    /\ list_state[0] = "closed"
    /\ IsPass(list_cmds[0])
    /\ Len(list_cmds[1]) > 1

\* ---- C16
\* Command lists submitted whose fence ticket the GPU has not reached: the
\* tickets are 1 for the copy list and 2, 3, ... for the frames.
InFlight == steps["upload"] + steps["submit"] - completed

\* Command lists the GPU has not executed yet.
QueuedLists == {n \in 1 .. Len(queue) : queue[n].kind = "list"}

\* C16 (frames in flight bounded by the lag): right after the iteration's
\* fence wait has returned at most one submitted frame is unretired (none
\* in the single-allocator loop, whose lag is 0), and in every state at most
\* 2 submissions are outstanding.
C16_FramesInFlightBounded ==
    /\ pc \in {"frame_index", "size_check"} =>
          /\ InFlight <= (IF variant = "table" THEN 1 ELSE 0)
          /\ m_value - completed <= (IF variant = "table" THEN 1 ELSE 0)
          /\ Cardinality(QueuedLists) <= 1
    /\ InFlight <= 2
    /\ Cardinality(QueuedLists) <= 2
    /\ variant = "single" => InFlight <= 1

\* Two frames are in flight: the GPU has executed neither.
C16_Witness ==
    /\ variant = "table"
    /\ pc = "frame_present"
    /\ InFlight = 2
    /\ Cardinality(QueuedLists) = 2

\* ---- C17
\* A checked call of the render thread has failed.
Failed == pc \in {"thrown", "terminated"}

\* C17 (failures are fatal): the step in which a checked call fails submits,
\* presents and signals nothing; afterwards the render thread takes no step
\* but the termination, so no reset, recording, submission, Present, fence
\* bump or wait follows and nothing is appended to the queue (the GPU only
\* retires what was submitted before); the termination ends the UI thread
\* too, and it does happen.
C17_FailuresFatal ==
    /\ [][ /\ (~Failed /\ Failed') =>
                 (/\ pc \in CheckedCallPcs
                  /\ queue' = queue /\ steps' = steps /\ entry_ops' = entry_ops
                  /\ back_index' = back_index)
           /\ Failed =>
                 (/\ Failed'
                  /\ Len(queue') <= Len(queue)
                  /\ UNCHANGED <<m_value, steps, entry_ops, listVars,
                                 upload_buffer, geometry, surfaceVars, frames,
                                 index, barriers, offset, block_from, released>>)
           /\ (pc = "terminated") => (pc' = "terminated" /\ UNCHANGED uiVars)
           /\ (pc' = "terminated") => (ui_pc' = "terminated")
         ]_vars
    /\ (pc = "thrown") ~> (pc = "terminated")

\* Present failed in the second iteration and the process has terminated
\* with the first frame's fence signal submitted and the second one never.
C17_Witness ==
    /\ pc = "terminated"
    /\ steps["submit"] = 2
    /\ steps["present"] = 1
    /\ steps["bump"] = 1

\* ---- C18
\* C18 (no no-op transition): every transition barrier that is constructed
\* or issued has different before and after states, because transition
\* rejects equal states and reverse keeps them different.
C18_NoEqualStateBarrier ==
    /\ barriers.op = "barrier" => barriers.before # barriers.after
    /\ \A e \in Entries : \A k \in 1 .. Len(list_cmds[e]) :
          list_cmds[e][k].op = "barrier" => list_cmds[e][k].before # list_cmds[e][k].after

\* ---- C19
\* C19 (reverse): a reverse call changes only a transition barrier, which
\* it leaves with the same resource and kind and with before and after
\* exchanged; two calls give the original barrier back; on a barrier of
\* another kind the call violates its precondition and swaps nothing.
C19_ReverseSwaps ==
    LET issued == list_cmds[0] IN
    /\ \A k \in 1 .. (Len(issued) - 1) :
          /\ issued[k].op = "barrier"
          /\ issued[k + 1] = [issued[k] EXCEPT !.before = issued[k].after,
                                              !.after = issued[k].before]
          /\ issued[k + 1].resource = issued[k].resource
          /\ issued[k + 1].op = issued[k].op
    /\ \A k \in 1 .. (Len(issued) - 2) : issued[k + 2] = issued[k]
    /\ Len(issued) > 0 => barriers = Last(issued)
    /\ (Len(issued) > 0 /\ issued[1].op \in OtherBarrierKinds) =>
          (Len(issued) = 1 /\ barriers = issued[1])

\* A transition barrier has been reversed twice.
C19_Witness ==
    /\ pc = "barrier_built"
    /\ Len(list_cmds[0]) = 3
    /\ list_cmds[0][1].before = "COMMON"
    /\ list_cmds[0][1].after = "RENDER_TARGET"
    /\ list_cmds[0][2].before = "RENDER_TARGET"
    /\ barriers = list_cmds[0][1]

\* ---- C20
\* C20 as stated, for a run that ends: every resize notification is followed
\* by a re-creation of the views, so the render thread never finishes with
\* the resize-pending flag still set.
C20_ResizeAlwaysHandled ==
    pc = "done" => ~is_size_updated

\* Positions at which the iteration's command list is reset, recorded,
\* closed or submitted.
UsesViewsPcs == {"alloc_reset", "frame_execute"} \cup RecordingPcs

\* C20, amended: whenever a frame is reset, recorded or submitted every swap
\* image has exactly one render-target view; the flag is cleared only by the
\* render thread at the start of an iteration, which then resizes the
\* buffers and creates one view per image before it records; and a pending
\* notification is handled by a later iteration unless the loop is left
\* first because the exit flag was observed.
C20_ResizeHandledUnlessExit ==
    /\ [](pc \in UsesViewsPcs => \A e \in Entries : rtv_count[e] = 1)
    /\ [][ /\ (is_size_updated /\ ~is_size_updated') => pc = "size_clear"
           /\ (pc = "size_clear") => (pc' \in {"size_clear", "resize_buffers"})
           /\ (pc = "resize_buffers") => (pc' \in {"resize_buffers", "process_resize"})
           /\ (steps'["resize"] # steps["resize"]) =>
                 \A e \in Entries : rtv_count[e] = 0 /\ rtv_count'[e] = 1
         ]_vars
    /\ \A n \in 0 .. MaxResizes :
          (is_size_updated /\ frames < MaxFrames /\ steps["resize"] = n)
              ~> (steps["resize"] > n \/ LoopLeft)

\* A resize was delivered and handled; the next frame is being recorded.
C20_Witness ==
    /\ resizes = 1
    /\ steps["resize"] = 1
    /\ ~is_size_updated
    /\ pc = "record_begin"
    /\ \A e \in Entries : rtv_count[e] = 1

\* ---- C21
\* This step is one of the UI thread: the message pump moves on, the exit
\* flag is written or a resize notification is delivered.
UiStep ==
    \/ ui_pc' # ui_pc
    \/ is_exit_required' # is_exit_required
    \/ resizes' # resizes
    \/ (~is_size_updated /\ is_size_updated')

\* What the render thread owns: fence, queue, allocators and lists, buffers,
\* swap chain and views, and its own locals.
RenderOwned ==
    <<fenceVars, queue, listVars, res_state, uploadVars, surfaceVars, threadVars>>

\* C21 (single-thread ownership): a step of the UI thread writes nothing but
\* the exit flag (set once, after the message loop has ended) and, in the
\* program with the resize flag, the resize-pending flag (set on WM_SIZE); it
\* leaves the fence, the queue, the allocators, the lists, the buffers and
\* the views unchanged.  These change only in steps of the render thread, or
\* when the GPU retires the head of the queue.
C21_SingleThreadOwnership ==
    [][ /\ UiStep => UNCHANGED <<RenderOwned, historyVars>>
        /\ (is_exit_required' # is_exit_required) =>
              (ui_pc = "quit" /\ is_exit_required' /\ is_size_updated' = is_size_updated)
        /\ (~is_size_updated /\ is_size_updated') =>
              (variant = "single" /\ ui_pc = "pumping" /\ resizes' = resizes + 1
               /\ is_exit_required' = is_exit_required)
        /\ (RenderOwned' # RenderOwned) =>
              (/\ ~UiStep
               /\ (pc' # pc \/ queue' = Tail(queue)))
        /\ (<<m_value, listVars, upload_buffer, geometry, surfaceVars>>' #
               <<m_value, listVars, upload_buffer, geometry, surfaceVars>>
             \/ Len(queue') > Len(queue)) => pc' # pc
      ]_vars

\* The UI thread has delivered a resize and set the exit flag while the
\* render thread is recording its second frame.
C21_Witness ==
    /\ variant = "single"
    /\ is_size_updated
    /\ is_exit_required
    /\ pc = "record_draw"
    /\ steps["submit"] = 1

\* ---- C22
GeometryResources == {"vertices", "indices"}

\* The commands of a list that write, copy into or transition a geometry
\* buffer.
GeometryWrites(cmds) ==
    {k \in 1 .. Len(cmds) :
        cmds[k].op \in {"copy", "barrier"} /\ cmds[k].resource \in GeometryResources}

\* C22 (geometry immutable after upload): once the staged upload has
\* returned, no step changes the bytes of the vertex or index buffer, their
\* resource states, or the returned views and index count; no list recorded
\* or submitted from then on holds a copy into or a transition of either
\* buffer; the draw only reads the index count.
C22_GeometryImmutable ==
    [][ geometry.returned =>
          /\ device_mem' = device_mem
          /\ geometry' = geometry
          /\ \A r \in GeometryResources : res_state'[r] = res_state[r]
          /\ \A e \in Entries :
                list_cmds'[e] # list_cmds[e] => GeometryWrites(list_cmds'[e]) = {}
          /\ (Len(queue') > Len(queue) /\ Last(queue').kind = "list") =>
                GeometryWrites(Last(queue').cmds) = {}
      ]_vars

\* Three frames were recorded and submitted after the upload and the GPU has
\* executed them all.
C22_Witness ==
    /\ geometry.returned
    /\ steps["submit"] = 3
    /\ queue = <<>>
    /\ device_mem.indices = IndexBytes(HostIndices)

\* ---- C23
\* Every number of every face is a 1-based index.
OneBasedFaces ==
    \A j \in 1 .. Len(object.faces) : \A k \in 1 .. 3 : object.faces[j][k] >= 1

\* The index stored at position n (from 0) of the index payload in the
\* staging buffer.
StagedIndex(n) == upload_buffer.bytes[IndexWriteOffset + n * SizeofUint + 1][2]

\* C23 (index conversion): for every face i (from 0) and each of its three
\* 1-based indices, the index written to the index payload at position
\* 3i + j is the source index minus 1.
C23_IndexConversion ==
    (StagingWritten /\ OneBasedFaces) =>
        \A i \in 0 .. (Len(object.faces) - 1) : \A j \in 0 .. 2 :
            /\ HostIndices[3 * i + j + 1] = object.faces[i + 1][j + 1] - 1
            /\ StagedIndex(3 * i + j) = object.faces[i + 1][j + 1] - 1

\* The same for the two later programs only.
C23_ConvertedWhereSubtracted ==
    variant \in Variants => C23_IndexConversion

\* ---- C24
\* The commands with operation op in the lists at hand and in the queue.
RecordedCmds(op) ==
    UNION { {list_cmds[e][k] : k \in {k \in 1 .. Len(list_cmds[e]) : list_cmds[e][k].op = op}} :
              e \in Entries }
    \cup UNION { {queue[n].cmds[k] :
                    k \in {k \in 1 .. Len(queue[n].cmds) : queue[n].cmds[k].op = op}} :
                  n \in 1 .. Len(queue) }

\* C24 (index count): the index count returned with the geometry buffers is
\* 3 times the number of faces loaded, it is the count every draw call is
\* recorded with, and it is the number of 32-bit indices the copy list moves
\* into the index buffer, which holds exactly that many.
C24_IndexCount ==
    LET count == 3 * Len(object.faces) IN
    /\ geometry.returned =>
          /\ geometry.index_count = count
          /\ geometry.indices_size = count * SizeofUint
          /\ Len(device_mem.indices) = count * SizeofUint
    /\ \A c \in RecordedCmds("draw") : c.size = count
    /\ \A c \in RecordedCmds("copy") :
          c.resource = "indices" => c.size = count * SizeofUint

\* A frame that draws an object of two faces has been submitted.
C24_Witness ==
    /\ Len(object.faces) = 2
    /\ geometry.index_count = 6
    /\ \E n \in 1 .. Len(queue) :
          /\ queue[n].kind = "list"
          /\ \E k \in 1 .. Len(queue[n].cmds) :
                queue[n].cmds[k].op = "draw" /\ queue[n].cmds[k].size = 6

\* ---- C25
\* Allocator resets of entry e made by the render loop: load_geometry has
\* reset the allocator of the first entry once before the loop.
LoopResets(e) ==
    alloc_resets[e] -
        (IF variant = "table" /\ e = 0 /\ entry_ops[0].reset >= 1 THEN 1 ELSE 0)

\* C25 (resets per slot): with the swap indices 0, 1, 0, ... of the frame
\* table program, after n iterations have reset their allocator entry 0 was
\* reset by the loop for every odd-numbered and entry 1 for every
\* even-numbered iteration, so after 3 iterations entry 0 exactly twice and
\* entry 1 exactly once; each reset is of the entry at the reported index,
\* and happens only when no submission from that entry is in the queue and
\* the fence has reached the entry's last ticket.
C25_ResetsPerSlot ==
    /\ [](variant = "table" =>
            /\ LoopResets(0) = (steps["reset"] + 1) \div 2
            /\ LoopResets(1) = steps["reset"] \div 2
            /\ steps["reset"] = 3 => (LoopResets(0) = 2 /\ LoopResets(1) = 1))
    /\ [][ (variant = "table" /\ steps'["reset"] # steps["reset"]) =>
              /\ index = (steps["reset"] % 2)
              /\ alloc_resets' = [alloc_resets EXCEPT ![index] = @ + 1]
              /\ ~Outstanding(index)
              /\ completed >= slot_ticket[index]
         ]_vars

\* The third iteration has reset entry 0 again while the second frame,
\* recorded from entry 1, is still unretired.
C25_Witness ==
    /\ variant = "table"
    /\ steps["reset"] = 3
    /\ LoopResets(0) = 2
    /\ LoopResets(1) = 1
    /\ Outstanding(1)
    /\ pc = "record_begin"

\* ---- C26
\* Command lists handed to the queue so far (the copy list and the frames);
\* the list handed over as the k-th is followed by the bump of ticket k.
Submitted == steps["upload"] + steps["submit"]

\* The bump that follows the last submission has not been called yet.
BumpPending == pc \in {"upload_bump", "frame_present", "frame_bump"}

\* C26 (ticket covers its submission): every bump is enqueued on the queue
\* behind the list submitted just before it, as ticket number = number of
\* lists submitted; the queue holds lists and their signals in submission
\* order, each list directly followed by its signal; hence when the fence
\* has reached ticket K the K first lists have left the queue: the lists
\* still queued are all later than K, the entry whose ticket has been
\* reached has no list in the queue, and the copy list has executed once the
\* upload's ticket is reached.
C26_TicketCoversSubmission ==
    /\ [](/\ m_value = Submitted - (IF BumpPending THEN 1 ELSE 0)
          /\ completed <= m_value
          /\ completed + Cardinality(QueuedLists) <= Submitted
          /\ \A n \in 1 .. Len(queue) :
                queue[n].kind = "list" =>
                    IF n < Len(queue)
                      THEN queue[n + 1].kind = "signal" /\ queue[n + 1].value > completed
                      ELSE BumpPending
          /\ \A n \in 1 .. Len(queue) : \A k \in 1 .. Len(queue) :
                (n < k /\ queue[n].kind = "signal" /\ queue[k].kind = "signal") =>
                    queue[n].value < queue[k].value
          /\ \A e \in Entries :
                (completed >= slot_ticket[e] /\ ~TicketPending(e)) => ~Outstanding(e)
          /\ (upload_ticket > 0 /\ completed >= upload_ticket) =>
                (~CopyOutstanding /\ device_mem.indices = IndexBytes(HostIndices)))
    /\ [][ SignalEnqueued =>
              /\ BumpPending
              /\ Last(queue').value = Submitted
              /\ queue # <<>> => Last(queue).kind = "list"
         ]_vars

\* The fence has reached the first frame's ticket while the second frame's
\* list and signal are still queued.
C26_Witness ==
    /\ variant = "table"
    /\ completed = 2
    /\ m_value = 3
    /\ Len(queue) = 2
    /\ queue[1].kind = "list"
    /\ queue[1].entry = 1
    /\ queue[2].kind = "signal"
    /\ queue[2].value = 3

\* ---- C27
\* Ticket v, bumped or initial, has been signalled: it is no longer queued.
Signalled(v) ==
    ~\E n \in 1 .. Len(queue) : queue[n].kind = "signal" /\ queue[n].value = v

C28_SuspendsIffBelowLag ==
    [][ (pc = "block_check" /\ pc' # pc) =>
          ((pc' = "block_arm") <=> (completed < m_value - offset)) ]_vars

\* ---- C29
\* C29 (exclusivity for any index sequence): whatever index the surface
\* reports, an iteration resets the allocator of an entry only when no
\* command list submitted from that entry is still in the queue and the
\* fence has reached the ticket bumped after the entry's last submission.
C29_ExclusiveForAnyIndex ==
    [][ pc = "alloc_reset" =>
          \A e \in Entries :
              alloc_resets'[e] # alloc_resets[e] =>
                  (~Outstanding(e) /\ completed >= slot_ticket[e]) ]_vars

\* ---- C30
\* C30 (the wait is for the full counter): the value block(lag) registers
\* its event for is the counter itself, whatever the lag; so whenever a
\* block(lag) call that went on to wait returns, the completed value is the
\* counter and every enqueued signal has been retired.
C30_WaitsForFullCounter ==
    /\ [](event_target \subseteq {m_value})
    /\ [][ (pc = "block_arm" /\ pc' # pc) =>
              (event_set' \/ event_target' = {m_value}) ]_vars
    /\ [][ (pc = "block_wait" /\ pc' # pc) =>
              /\ pc' \notin BlockPcs
              /\ completed' >= m_value'
              /\ queue' = <<>>
         ]_vars

\* A block(1) call found the fence two tickets behind, waited, and its
\* wake-up has arrived with the fence at the counter.
C30_Witness ==
    /\ pc = "block_wait"
    /\ offset = 1
    /\ m_value = 3
    /\ completed = 3
    /\ event_set
    /\ event_target = {}

\* ---- C31
\* C31 (upload and first frame share entry 0): the staged upload resets,
\* records, closes and submits only the allocator and list of entry 0; the
\* render loop resets an allocator only after the upload has returned from
\* its block() with the fence at the upload's ticket and the copy list out
\* of the queue; and no frame is being recorded while the copy list is
\* recorded, closed or in flight.
C31_UploadBeforeFirstFrame ==
    /\ [](pc \in RecordingPcs \cup {"alloc_reset"} =>
            /\ geometry.returned
            /\ upload_ticket > 0
            /\ completed >= upload_ticket
            /\ ~CopyOutstanding
            /\ \A k \in 1 .. Len(list_cmds[Entry]) : list_cmds[Entry][k].op # "copy" \/
                  pc \in {"alloc_reset", "record_begin"})
    /\ [][ InUpload =>
              /\ \A e \in Entries \ {0} :
                    /\ list_state'[e] = list_state[e]
                    /\ list_cmds'[e] = list_cmds[e]
                    /\ alloc_resets'[e] = alloc_resets[e]
              /\ (Len(queue') > Len(queue) /\ Last(queue').kind = "list") =>
                    Last(queue').entry = 0
         ]_vars
    /\ [][ (steps["reset"] = 0 /\ steps'["reset"] = 1) =>
              /\ Entry = 0
              /\ block_from = "frame"
              /\ alloc_resets'[0] = alloc_resets[0] + 1
              /\ ~Outstanding(0)
              /\ completed >= slot_ticket[0]
              /\ slot_ticket[0] = upload_ticket
         ]_vars

\* The first iteration has reset the allocator of entry 0, which still
\* holds the closed copy list of the upload.
C31_Witness ==
    /\ variant = "table"
    /\ pc = "record_begin"
    /\ index = 0
    /\ steps["reset"] = 1
    /\ alloc_resets[0] = 2
    /\ entry_ops[0].submit = 1
    /\ \E k \in 1 .. Len(list_cmds[0]) : list_cmds[0][k].op = "copy"

\* ---- C32
\* C32 (termination): once the UI thread has set the exit flag, with the
\* GPU retiring everything submitted, the render thread leaves the loop,
\* its final block() returns, the thread ends and the join returns; no
\* fence wait lasts forever, and the join returns only after the render
\* thread has ended.
C32_Termination ==
    /\ is_exit_required ~> LoopLeft
    /\ LoopLeft ~> (pc \in {"teardown", "done"})
    /\ is_exit_required ~> (pc = "done" /\ ui_pc = "exited")
    /\ (pc \in BlockPcs) ~> (pc \notin BlockPcs)
    /\ [](ui_pc = "exited" => (pc = "done" /\ released))

\* The exit flag was set during the second frame; the thread has drained
\* the GPU and ended, and the join has returned.
C32_Witness ==
    /\ ui_pc = "exited"
    /\ pc = "done"
    /\ frames = 2
    /\ steps["bump"] = 2
    /\ completed = m_value

\* ---- C33
\* The signals waiting in the queue.
QueuedSignals == {n \in 1 .. Len(queue) : queue[n].kind = "signal"}

\* C33 (fence never ahead of the counter): the fence object and the counter
\* start at the same value; in every state the completed value is at most
\* the counter; every queued signal carries a value above the completed
\* value and at most the counter, each value once and in rising order; and
\* a signal is enqueued only by a bump, with the counter value that bump
\* has just produced.
C33_FenceBehindCounter ==
    /\ completed = m_value
    /\ queue = <<>>
    /\ [](/\ completed <= m_value
          /\ \A n \in QueuedSignals :
                /\ queue[n].value > completed
                /\ queue[n].value <= m_value
          /\ \A n \in QueuedSignals : \A k \in QueuedSignals :
                n < k => queue[n].value < queue[k].value)
    /\ [][ /\ SignalEnqueued => (m_value' = m_value + 1 /\ Last(queue').value = m_value')
           /\ completed' # completed =>
                 (queue # <<>> /\ completed' = Head(queue).value /\ completed' > completed)
         ]_vars

\* A fence created with initial value 1 has been bumped three times and the
\* GPU has reached the first of the three tickets.
C33_Witness ==
    /\ pc = "harness_idle"
    /\ m_value = 4
    /\ completed = 2
    /\ Len(queue) = 2
    /\ queue[1].value = 3
    /\ queue[2].value = 4

\* ---- C34
\* Positions of the resize handling: the flag is cleared, ResizeBuffers is
\* called, the views are created again.
ResizePcs == {"size_clear", "resize_buffers", "process_resize"}

\* A submitted command list that binds, clears or transitions a back buffer
\* has not been retired.
BackbufferListOutstanding ==
    \E n \in 1 .. Len(queue) :
        /\ queue[n].kind = "list"
        /\ \E k \in 1 .. Len(queue[n].cmds) :
              queue[n].cmds[k].resource \in {Backbuffer(i) : i \in Entries}

\* C34 (resize only on an idle GPU): the loop with the resize flag handles
\* a resize only between the return of the iteration's block() with lag 0
\* and the allocator reset, in states where the completed value equals the
\* counter and the queue holds no command list; the swap chain's buffers
\* and views change in no other step of the loop, and never while a list
\* that references a back buffer is unretired.
C34_ResizeOnIdleGpu ==
    /\ [](pc \in (ResizePcs \cup {"size_check"}) =>
            /\ variant = "single"
            /\ block_from = "frame"
            /\ offset = 0
            /\ completed = m_value
            /\ queue = <<>>
            /\ ~BackbufferListOutstanding)
    /\ [][ (rtv_count' # rtv_count) =>
              /\ pc \in {"setup_rtvs", "resize_buffers", "process_resize"}
              /\ ~BackbufferListOutstanding
         ]_vars
    /\ [][ (pc = "size_check" /\ pc' # pc) => pc' \in {"size_clear", "alloc_reset"} ]_vars
    /\ [][ (pc' = "size_check" /\ pc' # pc) => (BlockReturns /\ block_from = "frame") ]_vars

\* The second iteration resizes the buffers after its wait has drained the
\* first frame.
C34_Witness ==
    /\ variant = "single"
    /\ pc = "resize_buffers"
    /\ steps["submit"] = 1
    /\ steps["bump"] = 1
    /\ completed = 2
    /\ queue = <<>>

\* ---- C35
\* C35 as stated, for a run in which the loop has been left: a set of the
\* flag has been followed by a ResizeBuffers call, so the render thread does
\* not leave the loop with the flag set and no resize made.
C35_EverySetResized ==
    (LoopLeft /\ is_size_updated) => steps["resize"] > 0

\* C35, amended (no notification lost to the test-then-clear): only the
\* render thread clears the flag, in the step between its test and its call
\* of ResizeBuffers, and only the WM_SIZE handler sets it; a set that arrives
\* after the clear leaves the flag set through the resize and the view
\* creation, up to the next iteration's test; and every set is followed by a
\* ResizeBuffers call that starts after it, unless the render thread leaves
\* the loop first because it observed the exit flag.
C35_NoSetLostToClear ==
    /\ [][ /\ (is_size_updated /\ ~is_size_updated') =>
                 (pc = "size_clear" /\ pc' = "resize_buffers")
           /\ (~is_size_updated /\ is_size_updated') =>
                 (resizes' = resizes + 1 /\ pc' = pc)
           /\ (pc \in {"resize_buffers", "process_resize"} /\ is_size_updated) =>
                 is_size_updated'
           /\ (pc = "size_check" /\ is_size_updated /\ pc' # pc) => pc' = "size_clear"
         ]_vars
    /\ (is_size_updated /\ frames < MaxFrames) ~> (pc = "resize_buffers" \/ LoopLeft)

\* A second WM_SIZE has arrived after the clear of the first and before the
\* call of ResizeBuffers: the flag is set again while the render thread is
\* about to resize.
C35_Witness ==
    /\ pc = "resize_buffers"
    /\ is_size_updated
    /\ resizes = 2
    /\ steps["resize"] = 0

\* The notification that arrived during the first resize has been handled
\* by the next iteration.
C35_SecondResize ==
    /\ resizes = 2
    /\ steps["resize"] = 2
    /\ ~is_size_updated

\* ---- C36
\* The number of the text behind position n (from 1) of the index array.
SourceIndex(n) == object.faces[((n - 1) \div 3) + 1][((n - 1) % 3) + 1]

\* C36 (unguarded unsigned conversion): in load_geometry and
\* load_wavefront_vertices every index of the text is converted by an
\* unsigned subtraction of 1: an index i >= 1 becomes i - 1 and the index 0
\* becomes the largest value of the index type.  Nothing rejects such an
\* object and nothing compares a converted index with the number of
\* vertices: for any numbers in the faces the upload's next step can be
\* taken, and the converted indices are the ones staged for the copy.
C36_UnsignedConversion ==
    variant \in Variants =>
        /\ \A n \in 1 .. (3 * Len(object.faces)) :
              /\ SourceIndex(n) >= 1 => HostIndices[n] = SourceIndex(n) - 1
              /\ SourceIndex(n) = 0 => HostIndices[n] = IndexModulus - 1
              /\ StagingWritten => StagedIndex(n - 1) = HostIndices[n]
        /\ pc = "upload_create" => ENABLED UploadCreate
        /\ pc = "upload_write" => ENABLED UploadWrite

\* An object with one vertex whose first face names the indices 0, 1 and 2
\* has been staged: the first index has wrapped, the third is not below the
\* vertex count.
C36_Witness ==
    /\ variant \in Variants
    /\ StagingWritten
    /\ object.positions = 1
    /\ object.faces[1] = <<0, 1, 2>>
    /\ StagedIndex(0) = IndexModulus - 1
    /\ StagedIndex(1) = 0
    /\ StagedIndex(2) >= object.positions

\* ---- C37
\* C37 (no stale signal on the event): outside the wait of a block() the
\* event is neither signalled nor registered with the fence; inside it the
\* event is registered for the counter value or already signalled, never
\* both; the event becomes signalled only while a block() waits on it and
\* stops being signalled only by the return of that wait; so a block() that
\* returns from its wait returns with the fence at the awaited value or
\* beyond, and one that returns without waiting has passed the test.
C37_NoStaleSignal ==
    /\ [](pc # "block_wait" => (~event_set /\ event_target = {}))
    /\ [](pc = "block_wait" =>
            /\ event_target \subseteq {m_value}
            /\ ~(event_set /\ event_target # {}))
    /\ [][ /\ (~event_set /\ event_set') => pc' = "block_wait"
           /\ (event_target' # event_target /\ event_target' # {}) =>
                 (pc = "block_arm" /\ pc' = "block_wait")
           /\ (event_set /\ ~event_set') => (pc = "block_wait" /\ BlockReturns)
           /\ (pc = "block_wait" /\ BlockReturns) =>
                 (event_set /\ ~event_set' /\ completed >= m_value)
           /\ (pc = "block_check" /\ BlockReturns) => ~BlockSuspends
         ]_vars

\* A later block() is suspended on the registered event after an earlier
\* ticket was signalled: the event is not signalled and the fence is still
\* below the awaited value.
C37_Witness ==
    /\ pc = "block_wait"
    /\ ~event_set
    /\ event_target = {m_value}
    /\ completed >= MaxInitialValue + 1
    /\ completed < m_value

====
